---- MODULE Spec2Model ----
(***************************************************************************)
(* Model of the pivot computation engine of react-pivotgrid:               *)
(*   utils/aggregations.ts      aggregate                                  *)
(*   utils/pivot-data.ts        generatePivotTable (synchronous builder)   *)
(*   utils/pivot-data-async.ts  generatePivotTableAsync (chunked,          *)
(*                              cancellable builder)                       *)
(* JavaScript values are tagged records, strings are TLA+ strings read     *)
(* character by character, and the asynchronous builder is a state machine *)
(* with one action per code segment between two suspensions.               *)
(***************************************************************************)
EXTENDS Integers, Sequences, FiniteSets, TLC

(***************************************************************************)
(* JavaScript values held by record fields.                                *)
(***************************************************************************)
Null == [k |-> "null", n |-> 0, s |-> ""]

Undefined == [k |-> "undefined", n |-> 0, s |-> ""]

Num(n) == [k |-> "number", n |-> n, s |-> ""]

Str(s) == [k |-> "string", n |-> 0, s |-> s]

\* item[field]: a property the item does not have reads as undefined
Get(item, field) == IF field \in DOMAIN item THEN item[field] ELSE Undefined

Digits == <<"0", "1", "2", "3", "4", "5", "6", "7", "8", "9">>

IsDigit(c) == \E i \in 1..10 : Digits[i] = c

DigitVal(c) == (CHOOSE i \in 1..10 : Digits[i] = c) - 1

RECURSIVE NatToStr(_)
NatToStr(n) == IF n < 10 THEN Digits[n + 1]
               ELSE NatToStr(n \div 10) \o Digits[(n % 10) + 1]

\* Number.prototype.toString for integers
NumToStr(n) == IF n < 0 THEN "-" \o NatToStr(0 - n) ELSE NatToStr(n)

\* String(value)
String(v) == CASE v.k = "number" -> NumToStr(v.n)
               [] v.k = "string" -> v.s
               [] v.k = "null" -> "null"
               [] OTHER -> "undefined"

\* value ?? 'null'
Coalesce(v) == IF v.k \in {"null", "undefined"} THEN Str("null") ELSE v

\* String(item[field] ?? 'null'): the coerced value of a field
Coerce(item, field) == String(Coalesce(Get(item, field)))

(***************************************************************************)
(* parseFloat / parseInt on strings without '.', exponent, leading blanks  *)
(* or "Infinity" (the strings of the model): optional sign, then the       *)
(* longest prefix of decimal digits; NaN when that prefix is empty.        *)
(***************************************************************************)
RECURSIVE DigitPrefix(_)
DigitPrefix(s) == IF Len(s) = 0 \/ ~IsDigit(Head(s)) THEN ""
                  ELSE Head(s) \o DigitPrefix(Tail(s))

RECURSIVE DigitsToNat(_, _)
DigitsToNat(s, acc) == IF Len(s) = 0 THEN acc
                       ELSE DigitsToNat(Tail(s), 10 * acc + DigitVal(Head(s)))

NaN == [nan |-> TRUE, v |-> 0]

parseFloat(s) ==
  LET neg == Len(s) > 0 /\ Head(s) = "-"
      body == IF Len(s) > 0 /\ Head(s) \in {"-", "+"} THEN Tail(s) ELSE s
      ds == DigitPrefix(body)
  IN IF Len(ds) = 0 THEN NaN
     ELSE [nan |-> FALSE,
           v |-> IF neg THEN 0 - DigitsToNat(ds, 0) ELSE DigitsToNat(ds, 0)]

parseInt(s) == parseFloat(s)

(***************************************************************************)
(* a.localeCompare(b, undefined, {numeric: true, sensitivity: 'base'}):    *)
(* primary-strength collation; case is ignored, a run of digits compares   *)
(* by its numeric value, punctuation sorts before digits, digits before    *)
(* letters.                                                                *)
(***************************************************************************)
Lower == <<"a", "b", "c", "d", "e", "f", "g", "h", "i", "j", "k", "l", "m",
           "n", "o", "p", "q", "r", "s", "t", "u", "v", "w", "x", "y", "z">>

Upper == <<"A", "B", "C", "D", "E", "F", "G", "H", "I", "J", "K", "L", "M",
           "N", "O", "P", "Q", "R", "S", "T", "U", "V", "W", "X", "Y", "Z">>

Punct == <<"_", "-", ",", ".", "+", " ">>

CharRank(c) ==
  IF \E i \in 1..26 : Lower[i] = c \/ Upper[i] = c
  THEN 100 + (CHOOSE i \in 1..26 : Lower[i] = c \/ Upper[i] = c)
  ELSE IF IsDigit(c) THEN 50 + DigitVal(c)
  ELSE IF \E i \in 1..Len(Punct) : Punct[i] = c
  THEN CHOOSE i \in 1..Len(Punct) : Punct[i] = c
  ELSE 0

Sign(x) == IF x < 0 THEN 0 - 1 ELSE IF x > 0 THEN 1 ELSE 0

RECURSIVE localeCompare(_, _)
localeCompare(a, b) ==
  IF Len(a) = 0 /\ Len(b) = 0 THEN 0
  ELSE IF Len(a) = 0 THEN 0 - 1
  ELSE IF Len(b) = 0 THEN 1
  ELSE IF IsDigit(Head(a)) /\ IsDigit(Head(b))
  THEN LET da == DigitPrefix(a)
           db == DigitPrefix(b)
           na == DigitsToNat(da, 0)
           nb == DigitsToNat(db, 0)
       IN IF na # nb THEN Sign(na - nb)
          ELSE localeCompare(SubSeq(a, Len(da) + 1, Len(a)),
                             SubSeq(b, Len(db) + 1, Len(b)))
  ELSE IF CharRank(Head(a)) # CharRank(Head(b))
  THEN Sign(CharRank(Head(a)) - CharRank(Head(b)))
  ELSE localeCompare(Tail(a), Tail(b))

\* smartSort of utils/pivot-data.ts
smartSort(a, b) ==
  LET numA == parseFloat(a)
      numB == parseFloat(b)
  IN IF ~numA.nan /\ ~numB.nan THEN numA.v - numB.v
     ELSE localeCompare(a, b)

\* smartSort of utils/pivot-data-async.ts
smartSortAsync(a, b) ==
  LET numA == parseFloat(a)
      numB == parseFloat(b)
  IN IF ~numA.nan /\ ~numB.nan THEN numA.v - numB.v
     ELSE localeCompare(a, b)

Minus(a, b) == a - b

\* the comparators handed to Array.prototype.sort
Compare(cmp, a, b) ==
  CASE cmp = "smartSort" -> smartSort(a, b)
    [] cmp = "smartSortAsync" -> smartSortAsync(a, b)
    [] cmp = "minus" -> Minus(a, b)

(***************************************************************************)
(* Array.prototype.sort(cmp): stable; computed by binary insertion, the    *)
(* way the engine sorts short arrays.                                      *)
(***************************************************************************)
RECURSIVE InsertAt(_, _, _, _, _)
InsertAt(cmp, sorted, pivot, left, right) ==
  IF left >= right THEN left
  ELSE LET mid == left + ((right - left) \div 2)
       IN IF Compare(cmp, pivot, sorted[mid + 1]) < 0
          THEN InsertAt(cmp, sorted, pivot, left, mid)
          ELSE InsertAt(cmp, sorted, pivot, mid + 1, right)

RECURSIVE SortFrom(_, _, _, _)
SortFrom(cmp, arr, sorted, i) ==
  IF i > Len(arr) THEN sorted
  ELSE LET at == InsertAt(cmp, sorted, arr[i], 0, Len(sorted))
       IN SortFrom(cmp, arr,
                   SubSeq(sorted, 1, at) \o <<arr[i]>>
                     \o SubSeq(sorted, at + 1, Len(sorted)), i + 1)

ArraySort(arr, cmp) == SortFrom(cmp, arr, <<>>, 1)

Range(seq) == {seq[i] : i \in 1..Len(seq)}

\* Array.from(new Set(arr)): the distinct elements in first-occurrence order
RECURSIVE SetOrder(_, _)
SetOrder(arr, seen) ==
  IF Len(arr) = 0 THEN seen
  ELSE SetOrder(Tail(arr),
                IF Head(arr) \in Range(seen) THEN seen
                ELSE Append(seen, Head(arr)))

RECURSIVE Flatten(_)
Flatten(seqs) == IF Len(seqs) = 0 THEN <<>>
                 ELSE Head(seqs) \o Flatten(Tail(seqs))

(***************************************************************************)
(* utils/aggregations.ts                                                   *)
(***************************************************************************)
RECURSIVE GCD(_, _)
GCD(a, b) == IF b = 0 THEN a ELSE GCD(b, a % b)

Abs(x) == IF x < 0 THEN 0 - x ELSE x

\* a JavaScript number n/d in lowest terms (d = 1 for an integer)
AggNum(n, d) ==
  LET g == GCD(Abs(n), Abs(d))
      sg == IF d < 0 THEN 0 - 1 ELSE 1
  IN [k |-> "number", n |-> (sg * n) \div g, d |-> (sg * d) \div g,
      s |-> "", l |-> <<>>]

AggStr(s) == [k |-> "string", n |-> 0, d |-> 1, s |-> s, l |-> <<>>]

AggList(l) == [k |-> "list", n |-> 0, d |-> 1, s |-> "", l |-> l]

IsSquare(n) == \E r \in 0..n : r * r = n

ISqrt(n) == CHOOSE r \in 0..n : r * r = n

\* Math.sqrt of the rational n/d; an irrational root is kept symbolic
AggSqrt(n, d) ==
  LET q == AggNum(n, d)
  IN IF IsSquare(q.n) /\ IsSquare(q.d) THEN AggNum(ISqrt(q.n), ISqrt(q.d))
     ELSE [q EXCEPT !.k = "sqrt"]

RECURSIVE SumSeq(_)
SumSeq(nums) == IF Len(nums) = 0 THEN 0 ELSE Head(nums) + SumSeq(Tail(nums))

MinSeq(nums) == CHOOSE x \in Range(nums) : \A y \in Range(nums) : x <= y

MaxSeq(nums) == CHOOSE x \in Range(nums) : \A y \in Range(nums) : x >= y

AggregationFunctions ==
  {"count", "countUnique", "listUnique", "sum", "integerSum", "average",
   "median", "sampleVariance", "sampleStandardDeviation", "minimum",
   "maximum", "first", "last"}

\* aggregate without the early return for an empty record list
aggregate_noEmptyGuard(data, field, fn) ==
  LET raw == [i \in 1..Len(data) |-> Get(data[i], field)]
      NotNullish(v) == v.k \notin {"undefined", "null"}
      values == SelectSeq(raw, NotNullish)
      NotNaN(p) == ~p.nan
      floats == LET ps == SelectSeq([i \in 1..Len(values) |->
                                       parseFloat(String(values[i]))], NotNaN)
                IN [i \in 1..Len(ps) |-> ps[i].v]
      ints == LET ps == SelectSeq([i \in 1..Len(values) |->
                                     parseInt(String(values[i]))], NotNaN)
              IN [i \in 1..Len(ps) |-> ps[i].v]
      cnt == Len(floats)
      total == SumSeq(floats)
      \* sum of (val - mean)^2, scaled by cnt^2
      sqdev == SumSeq([i \in 1..cnt |->
                         (cnt * floats[i] - total) * (cnt * floats[i] - total)])
  IN CASE fn = "count" -> AggNum(Len(data), 1)
       [] fn = "countUnique" -> AggNum(Cardinality(Range(values)), 1)
       [] fn = "listUnique" ->
            LET u == SetOrder(values, <<>>)
            IN AggList([i \in 1..Len(u) |-> String(u[i])])
       [] fn = "sum" -> AggNum(total, 1)
       [] fn = "integerSum" -> AggNum(SumSeq(ints), 1)
       [] fn = "average" -> IF cnt > 0 THEN AggNum(total, cnt) ELSE AggNum(0, 1)
       [] fn = "median" ->
            LET nums == ArraySort(floats, "minus")
                mid == cnt \div 2
            IN IF cnt = 0 THEN AggNum(0, 1)
               ELSE IF cnt % 2 # 0 THEN AggNum(nums[mid + 1], 1)
               ELSE AggNum(nums[mid] + nums[mid + 1], 2)
       [] fn = "sampleVariance" ->
            IF cnt <= 1 THEN AggNum(0, 1)
            ELSE AggNum(sqdev, cnt * cnt * (cnt - 1))
       [] fn = "sampleStandardDeviation" ->
            IF cnt <= 1 THEN AggNum(0, 1)
            ELSE AggSqrt(sqdev, cnt * cnt * (cnt - 1))
       [] fn = "minimum" -> IF cnt > 0 THEN AggNum(MinSeq(floats), 1)
                            ELSE AggNum(0, 1)
       [] fn = "maximum" -> IF cnt > 0 THEN AggNum(MaxSeq(floats), 1)
                            ELSE AggNum(0, 1)
       [] fn = "first" -> IF Len(values) > 0 THEN AggStr(String(values[1]))
                          ELSE AggStr("")
       [] fn = "last" ->
            IF Len(values) > 0 THEN AggStr(String(values[Len(values)]))
            ELSE AggStr("")
       [] OTHER -> AggNum(0, 1)

\* aggregate counting the value column instead of the records
aggregate_countValueColumn(data, field, fn) ==
  IF Len(data) = 0 THEN AggNum(0, 1)
  ELSE IF fn = "count"
  THEN LET NotNullish(item) == Get(item, field).k \notin {"undefined", "null"}
       IN AggNum(Len(SelectSeq(data, NotNullish)), 1)
  ELSE aggregate_noEmptyGuard(data, field, fn)

\* aggregate dividing the total by the number of records for the average
aggregate_averageOverRecords(data, field, fn) ==
  IF Len(data) = 0 THEN AggNum(0, 1)
  ELSE IF fn = "average"
  THEN AggNum(aggregate_noEmptyGuard(data, field, "sum").n, Len(data))
  ELSE aggregate_noEmptyGuard(data, field, fn)

aggregate(data, field, fn) ==
  IF Len(data) = 0 THEN AggNum(0, 1)
  ELSE
  LET raw == [i \in 1..Len(data) |-> Get(data[i], field)]
      NotNullish(v) == v.k \notin {"undefined", "null"}
      values == SelectSeq(raw, NotNullish)
      NotNaN(p) == ~p.nan
      floats == LET ps == SelectSeq([i \in 1..Len(values) |->
                                       parseFloat(String(values[i]))], NotNaN)
                IN [i \in 1..Len(ps) |-> ps[i].v]
      ints == LET ps == SelectSeq([i \in 1..Len(values) |->
                                     parseInt(String(values[i]))], NotNaN)
              IN [i \in 1..Len(ps) |-> ps[i].v]
      cnt == Len(floats)
      total == SumSeq(floats)
      \* sum of (val - mean)^2, scaled by cnt^2
      sqdev == SumSeq([i \in 1..cnt |->
                         (cnt * floats[i] - total) * (cnt * floats[i] - total)])
  IN CASE fn = "count" -> AggNum(Len(data), 1)
       [] fn = "countUnique" -> AggNum(Cardinality(Range(values)), 1)
       [] fn = "listUnique" ->
            LET u == SetOrder(values, <<>>)
            IN AggList([i \in 1..Len(u) |-> String(u[i])])
       [] fn = "sum" -> AggNum(total, 1)
       [] fn = "integerSum" -> AggNum(SumSeq(ints), 1)
       [] fn = "average" -> IF cnt > 0 THEN AggNum(total, cnt) ELSE AggNum(0, 1)
       [] fn = "median" ->
            LET nums == ArraySort(floats, "minus")
                mid == cnt \div 2
            IN IF cnt = 0 THEN AggNum(0, 1)
               ELSE IF cnt % 2 # 0 THEN AggNum(nums[mid + 1], 1)
               ELSE AggNum(nums[mid] + nums[mid + 1], 2)
       [] fn = "sampleVariance" ->
            IF cnt <= 1 THEN AggNum(0, 1)
            ELSE AggNum(sqdev, cnt * cnt * (cnt - 1))
       [] fn = "sampleStandardDeviation" ->
            IF cnt <= 1 THEN AggNum(0, 1)
            ELSE AggSqrt(sqdev, cnt * cnt * (cnt - 1))
       [] fn = "minimum" -> IF cnt > 0 THEN AggNum(MinSeq(floats), 1)
                            ELSE AggNum(0, 1)
       [] fn = "maximum" -> IF cnt > 0 THEN AggNum(MaxSeq(floats), 1)
                            ELSE AggNum(0, 1)
       [] fn = "first" -> IF Len(values) > 0 THEN AggStr(String(values[1]))
                          ELSE AggStr("")
       [] fn = "last" ->
            IF Len(values) > 0 THEN AggStr(String(values[Len(values)]))
            ELSE AggStr("")
       [] OTHER -> AggNum(0, 1)

(***************************************************************************)
(* utils/pivot-data.ts: the synchronous builder                            *)
(***************************************************************************)
\* uniqueValues with an array in place of the Set: repeated values are kept
uniqueValues_noDedupe(data, field) ==
  [i \in 1..Len(data) |-> Coerce(data[i], field)]

\* the Set of coerced values of one field, in insertion order
uniqueValues(data, field) ==
  SetOrder([i \in 1..Len(data) |-> Coerce(data[i], field)], <<>>)

RECURSIVE generateCombinations(_, _, _)
generateCombinations(data, fields, fieldIndex) ==
  IF fieldIndex > Len(fields) THEN << <<>> >>
  ELSE LET values == ArraySort(uniqueValues(data, fields[fieldIndex]),
                               "smartSort")
           subCombinations == generateCombinations(data, fields, fieldIndex + 1)
       IN Flatten([i \in 1..Len(values) |->
                     [j \in 1..Len(subCombinations) |->
                        <<values[i]>> \o subCombinations[j]]])

getNestedKeys(data, fields) ==
  IF Len(fields) = 0 THEN << <<>> >>
  ELSE generateCombinations(data, fields, 1)

filterData(data, filters) ==
  LET keep(item) ==
        \A i \in 1..Len(filters) :
          \/ Len(filters[i].values) = 0
          \/ Coerce(item, filters[i].field) \in Range(filters[i].values)
  IN SelectSeq(data, keep)

\* getSubsetData matching the row keys only
getSubsetData_rowOnly(data, rowKeys, columnKeys, rowFields, columnFields) ==
  LET match(item) ==
        \A i \in 1..Len(rowKeys) : Coerce(item, rowFields[i]) = rowKeys[i]
  IN SelectSeq(data, match)

getSubsetData(data, rowKeys, columnKeys, rowFields, columnFields) ==
  LET match(item) ==
        /\ \A i \in 1..Len(rowKeys) : Coerce(item, rowFields[i]) = rowKeys[i]
        /\ \A i \in 1..Len(columnKeys) :
             Coerce(item, columnFields[i]) = columnKeys[i]
  IN SelectSeq(data, match)

valueKey(valueConfig) ==
  valueConfig.field \o " (" \o valueConfig.aggregation \o ")"

\* the AggregatedValues object built for one record subset
RECURSIVE assignValues(_, _, _, _)
assignValues(subset, values, i, acc) ==
  IF i > Len(values) THEN acc
  ELSE assignValues(subset, values, i + 1,
         (valueKey(values[i]) :>
            aggregate(subset, values[i].field, values[i].aggregation)) @@ acc)

aggregatedValues(subset, values) ==
  IF Len(values) = 0 THEN ("Count" :> AggNum(Len(subset), 1))
  ELSE assignValues(subset, values, 2,
         (valueKey(values[1]) :>
            aggregate(subset, values[1].field, values[1].aggregation)))

generatePivotTable(data, config) ==
  LET filteredData == filterData(data, config.filters)
      rowKeys == getNestedKeys(filteredData, config.rows)
      columnKeys == getNestedKeys(filteredData, config.columns)
      cell(rowKey, colKey) ==
        LET subsetData == getSubsetData(filteredData, rowKey, colKey,
                                        config.rows, config.columns)
        IN [value |-> aggregatedValues(subsetData, config.values),
            rowKeys |-> rowKey, columnKeys |-> colKey, data |-> subsetData]
  IN [rowHeaders |-> rowKeys,
      columnHeaders |-> columnKeys,
      cells |-> [r \in 1..Len(rowKeys) |->
                   [c \in 1..Len(columnKeys) |->
                      cell(rowKeys[r], columnKeys[c])]],
      rowTotals |-> [r \in 1..Len(rowKeys) |->
                       aggregatedValues(
                         getSubsetData(filteredData, rowKeys[r], <<>>,
                                       config.rows, <<>>), config.values)],
      columnTotals |-> [c \in 1..Len(columnKeys) |->
                          aggregatedValues(
                            getSubsetData(filteredData, <<>>, columnKeys[c],
                                          <<>>, config.columns), config.values)],
      grandTotal |-> aggregatedValues(filteredData, config.values)]

(***************************************************************************)
(* utils/pivot-data-async.ts: the helpers of the asynchronous builder      *)
(***************************************************************************)
CHUNK_SIZE == 100

\* generateCombinationsAsync with the two forEach loops exchanged: the
\* sub-combinations in the outer loop, the field's values in the inner one
RECURSIVE generateCombinationsAsync_innerSlowest(_, _, _)
generateCombinationsAsync_innerSlowest(data, fields, fieldIndex) ==
  IF fieldIndex > Len(fields) THEN << <<>> >>
  ELSE LET values == ArraySort(uniqueValues(data, fields[fieldIndex]),
                               "smartSortAsync")
           subCombinations ==
             generateCombinationsAsync_innerSlowest(data, fields,
                                                    fieldIndex + 1)
       IN Flatten([j \in 1..Len(subCombinations) |->
                     [i \in 1..Len(values) |->
                        <<values[i]>> \o subCombinations[j]]])

RECURSIVE generateCombinationsAsync(_, _, _)
generateCombinationsAsync(data, fields, fieldIndex) ==
  IF fieldIndex > Len(fields) THEN << <<>> >>
  ELSE LET values == ArraySort(uniqueValues(data, fields[fieldIndex]),
                               "smartSortAsync")
           subCombinations ==
             generateCombinationsAsync(data, fields, fieldIndex + 1)
       IN Flatten([i \in 1..Len(values) |->
                     [j \in 1..Len(subCombinations) |->
                        <<values[i]>> \o subCombinations[j]]])

\* firstExceeding with >= in place of >
firstExceeding_atLeast(data, fields, pivotItemThreshold) ==
  LET over == {i \in 1..Len(fields) :
                 Len(uniqueValues(data, fields[i])) >= pivotItemThreshold}
  IN IF over = {} THEN 0 ELSE CHOOSE i \in over : \A j \in over : i <= j

\* firstExceeding validating after the loop: the last field over the
\* threshold is reported
firstExceeding_last(data, fields, pivotItemThreshold) ==
  LET over == {i \in 1..Len(fields) :
                 Len(uniqueValues(data, fields[i])) > pivotItemThreshold}
  IN IF over = {} THEN 0 ELSE CHOOSE i \in over : \A j \in over : i >= j

\* the position of the first field whose distinct count exceeds the
\* threshold, 0 when there is none (the validation loop of getNestedKeysAsync)
firstExceeding(data, fields, pivotItemThreshold) ==
  LET over == {i \in 1..Len(fields) :
                 Len(uniqueValues(data, fields[i])) > pivotItemThreshold}
  IN IF over = {} THEN 0 ELSE CHOOSE i \in over : \A j \in over : i <= j

PivotValidationError(fieldName, fieldType, distinctCount) ==
  [name |-> "PivotValidationError",
   message |-> "Field \"" \o fieldName \o "\" has too many unique values ("
                 \o NumToStr(distinctCount) \o ")",
   fieldName |-> fieldName, fieldType |-> fieldType,
   distinctCount |-> distinctCount]

\* new Error('Aborted')
AbortedError ==
  [name |-> "Error", message |-> "Aborted", fieldName |-> "", fieldType |-> "",
   distinctCount |-> 0]

\* getNestedKeysAsync returning the single empty tuple for an empty record
\* list as it does for an empty field list
getNestedKeysAsync_emptyDataUngrouped(data, fields, fieldType, pivotItemThreshold) ==
  IF Len(fields) = 0 \/ Len(data) = 0 THEN [ok |-> TRUE, keys |-> << <<>> >>]
  ELSE LET bad == firstExceeding(data, fields, pivotItemThreshold)
       IN IF bad # 0
          THEN [ok |-> FALSE,
                error |-> PivotValidationError(
                            fields[bad], fieldType,
                            Len(uniqueValues(data, fields[bad])))]
          ELSE [ok |-> TRUE, keys |-> generateCombinationsAsync(data, fields, 1)]

\* getNestedKeysAsync: either the key tuples or the PivotValidationError
getNestedKeysAsync(data, fields, fieldType, pivotItemThreshold) ==
  IF Len(fields) = 0 THEN [ok |-> TRUE, keys |-> << <<>> >>]
  ELSE LET bad == firstExceeding(data, fields, pivotItemThreshold)
       IN IF bad # 0
          THEN [ok |-> FALSE,
                error |-> PivotValidationError(
                            fields[bad], fieldType,
                            Len(uniqueValues(data, fields[bad])))]
          ELSE [ok |-> TRUE, keys |-> generateCombinationsAsync(data, fields, 1)]

\* filterDataAsync without the early return for an empty allow-list
filterDataAsync_emptyRejects(data, filters) ==
  LET keep(item) ==
        \A i \in 1..Len(filters) :
          Coerce(item, filters[i].field) \in Range(filters[i].values)
  IN SelectSeq(data, keep)

filterDataAsync(data, filters) ==
  LET keep(item) ==
        \A i \in 1..Len(filters) :
          \/ Len(filters[i].values) = 0
          \/ Coerce(item, filters[i].field) \in Range(filters[i].values)
  IN SelectSeq(data, keep)

\* getSubsetDataAsync returning rowMatch alone
getSubsetDataAsync_rowOnly(data, rowKeys, columnKeys, rowFields, columnFields) ==
  LET match(item) ==
        \A i \in 1..Len(rowKeys) : Coerce(item, rowFields[i]) = rowKeys[i]
  IN SelectSeq(data, match)

\* getSubsetDataAsync returning a fresh copy of every matching record
getSubsetDataAsync_copies(data, rowKeys, columnKeys, rowFields, columnFields) ==
  LET match(item) ==
        /\ \A i \in 1..Len(rowKeys) : Coerce(item, rowFields[i]) = rowKeys[i]
        /\ \A i \in 1..Len(columnKeys) :
             Coerce(item, columnFields[i]) = columnKeys[i]
      sel == SelectSeq(data, match)
  IN [i \in 1..Len(sel) |-> [sel[i] EXCEPT !.id = Num(0)]]

getSubsetDataAsync(data, rowKeys, columnKeys, rowFields, columnFields) ==
  LET match(item) ==
        /\ \A i \in 1..Len(rowKeys) : Coerce(item, rowFields[i]) = rowKeys[i]
        /\ \A i \in 1..Len(columnKeys) :
             Coerce(item, columnFields[i]) = columnKeys[i]
  IN SelectSeq(data, match)

\* aggregatedValuesAsync taking the default branch for every config
aggregatedValuesAsync_countOnly(subset, values) ==
  ("Count" :> AggNum(Len(subset), 1))

aggregatedValuesAsync(subset, values) ==
  IF Len(values) = 0 THEN ("Count" :> AggNum(Len(subset), 1))
  ELSE assignValues(subset, values, 2,
         (valueKey(values[1]) :>
            aggregate(subset, values[1].field, values[1].aggregation)))

(***************************************************************************)
(* The inputs of one invocation.                                           *)
(***************************************************************************)
MaxRecords == 3

Missing == [k |-> "missing", n |-> 0, s |-> ""]

FValues == {Null, Num(10)}

GValues == {Missing, Str("a")}

\* a record of the caller; id is the object's identity (its place in the
\* input array), g may be absent
Item(id, fv, gv) ==
  IF gv = Missing THEN [id |-> Num(id), f |-> fv]
  ELSE [id |-> Num(id), f |-> fv, g |-> gv]

DataSets ==
  UNION {{[i \in 1..n |-> Item(i, c[i][1], c[i][2])] :
            c \in [1..n -> FValues \X GValues]} : n \in 0..MaxRecords}

RowChoices == {<<>>, <<"f">>, <<"f", "g">>}

ColumnChoices == {<<>>, <<"g">>, <<"g", "f">>}

ValueChoices ==
  {<<>>,
   <<[field |-> "f", aggregation |-> "sum"],
     [field |-> "g", aggregation |-> "count"],
     [field |-> "f", aggregation |-> "integerSum"]>>}

FilterChoices ==
  {<<>>,
   <<[field |-> "f", values |-> <<>>],
     [field |-> "g", values |-> <<"null", "b">>]>>}

\* seven nested groupings by g: 2^7 = 128 key tuples, more than one chunk
DeepAxis == <<"g", "g", "g", "g", "g", "g", "g">>

DeepConfigs ==
  {[rows |-> DeepAxis, columns |-> <<>>, values |-> <<>>,
    filters |-> <<>>],
   [rows |-> <<>>, columns |-> DeepAxis,
    values |-> <<[field |-> "f", aggregation |-> "sum"]>>,
    filters |-> <<>>]}

Configs ==
  [rows : RowChoices, columns : ColumnChoices, values : ValueChoices,
   filters : FilterChoices]

\* the record sets the deep configurations are run on
DeepDataSets ==
  {d \in DataSets : Len(d) < MaxRecords
                    /\ \A i \in 1..Len(d) : d[i].f = Num(10)}

Thresholds == {1, 2}

(***************************************************************************)
(* generatePivotTableAsync as a state machine.  pc is the place the        *)
(* invocation has reached; it is suspended (the event loop runs other      *)
(* work, which may abort the signal) exactly at the places of Suspended.   *)
(* peer holds the local state of a second invocation that is not running   *)
(* at the moment, when there is one; yields counts the calls of            *)
(* yieldControl the invocation has made.                                   *)
(***************************************************************************)
VARIABLES data, config, pivotItemThreshold, aborted, abortedAt, pc,
          filteredData, rowKeys, columnKeys, rowIndex, colIndex, cells,
          rowTotals, columnTotals, result, error, peer, yields, hook, turn

vars == <<data, config, pivotItemThreshold, aborted, abortedAt, pc,
          filteredData, rowKeys, columnKeys, rowIndex, colIndex, cells,
          rowTotals, columnTotals, result, error, peer, yields, hook, turn>>

inputs == <<data, config, pivotItemThreshold>>

Suspended == {"yieldAfterRows", "yieldAfterColumns", "rowYield", "colYield"}

Terminal == {"completed", "cancelled", "cardinalityExceeded"}

\* turn is the parity of the turns the event loop has taken for the hook

\* use-debounced-pivot.ts lines 17-24: the table the hook starts with
EmptyTable ==
  [rowHeaders |-> <<>>, columnHeaders |-> <<>>, cells |-> <<>>,
   rowTotals |-> <<>>, columnTotals |-> <<>>, grandTotal |-> <<>>]

\* use-debounced-pivot.ts lines 17-29: the state and the refs of a
\* useDebouncedPivot whose effects have not run yet; initial is the
\* computation of the mount effect with its controller, committed the inputs
\* of the computation whose table was committed last, reported the error
\* given last to onValidationError, failures the number of
\* cardinality errors reported since the caller last changed an argument,
\* ejectable the number of row and column fields at that change, changes
\* the number of changes the caller has made
Unmounted ==
  [mounted |-> FALSE, pivotTable |-> EmptyTable, isComputing |-> FALSE,
   timeoutRef |-> <<>>, computationRef |-> <<>>, lastComputedConfig |-> "",
   initial |-> <<>>, committed |-> <<>>, reported |-> <<>>, failures |-> 0,
   ejectable |-> 0, changes |-> 0]

Init ==
  /\ \/ data \in DataSets /\ config \in Configs
     \/ data \in DeepDataSets /\ config \in DeepConfigs
  /\ pivotItemThreshold \in Thresholds
  /\ aborted = FALSE
  /\ abortedAt = "never"
  /\ pc = "created"
  /\ filteredData = <<>>
  /\ rowKeys = <<>>
  /\ columnKeys = <<>>
  /\ rowIndex = 0
  /\ colIndex = 0
  /\ cells = <<>>
  /\ rowTotals = <<>>
  /\ columnTotals = <<>>
  /\ result = <<>>
  /\ error = <<>>
  /\ peer = <<>>
  /\ yields = 0
  /\ hook = Unmounted
  /\ turn = 0

\* Cancel on an AbortController that both invocations share
Cancel_sharedToken ==
  /\ ~aborted
  /\ pc \in Suspended \cup {"created"}
  /\ aborted' = TRUE
  /\ abortedAt' = pc
  /\ peer' = [i \in 1..Len(peer) |-> [peer[i] EXCEPT !.aborted = TRUE]]
  /\ UNCHANGED <<inputs, hook, turn, yields, pc, filteredData, rowKeys, columnKeys, rowIndex,
                 colIndex, cells, rowTotals, columnTotals, result, error>>

\* the owner of the AbortController calls abort(): before the invocation, or
\* while the invocation is suspended
Cancel ==
  /\ ~aborted
  /\ pc \in Suspended \cup {"created"}
  /\ aborted' = TRUE
  /\ abortedAt' = pc
  /\ UNCHANGED <<inputs, hook, turn, peer, yields, pc, filteredData, rowKeys, columnKeys, rowIndex,
                 colIndex, cells, rowTotals, columnTotals, result, error>>

\* throw new Error('Aborted')
ThrowAborted ==
  /\ pc' = "cancelled"
  /\ error' = <<AbortedError>>

\* line 35: const filteredData = filterData(data, config.filters)
Filter ==
  /\ pc = "created"
  /\ filteredData' = filterDataAsync(data, config.filters)
  /\ pc' = "checkStart"
  /\ UNCHANGED <<inputs, hook, turn, peer, yields, aborted, abortedAt, rowKeys, columnKeys, rowIndex,
                 colIndex, cells, rowTotals, columnTotals, result, error>>

\* CheckStart without the abort check of line 38
CheckStart_noAbortCheck ==
  /\ pc = "checkStart"
  /\ pc' = "deriveRows"
  /\ UNCHANGED <<inputs, hook, turn, peer, yields, aborted, abortedAt, filteredData, rowKeys,
                 columnKeys, rowIndex, colIndex, cells, rowTotals,
                 columnTotals, result, error>>

\* line 38: if (signal?.aborted) throw new Error('Aborted')
CheckStart ==
  /\ pc = "checkStart"
  /\ IF aborted THEN ThrowAborted
     ELSE pc' = "deriveRows" /\ UNCHANGED error
  /\ UNCHANGED <<inputs, hook, turn, peer, yields, aborted, abortedAt, filteredData, rowKeys,
                 columnKeys, rowIndex, colIndex, cells, rowTotals,
                 columnTotals, result>>

\* line 41: rowKeys = await getNestedKeysAsync(..., 'row', ...); the
\* invocation is then suspended by the await and by yieldControl of line 42
DeriveRowKeys ==
  /\ pc = "deriveRows"
  /\ LET r == getNestedKeysAsync(filteredData, config.rows, "row",
                                 pivotItemThreshold)
     IN IF r.ok
        THEN rowKeys' = r.keys /\ pc' = "yieldAfterRows"
             /\ yields' = yields + 1 /\ UNCHANGED error
        ELSE error' = <<r.error>> /\ pc' = "cardinalityExceeded"
             /\ UNCHANGED <<rowKeys, yields>>
  /\ UNCHANGED <<inputs, hook, turn, peer, aborted, abortedAt, filteredData, columnKeys,
                 rowIndex, colIndex, cells, rowTotals, columnTotals, result>>

\* lines 42-44: the continuation of yieldControl goes on to the column keys
ResumeAfterRows ==
  /\ pc = "yieldAfterRows"
  /\ pc' = "deriveColumns"
  /\ UNCHANGED <<inputs, hook, turn, peer, yields, aborted, abortedAt, filteredData, rowKeys,
                 columnKeys, rowIndex, colIndex, cells, rowTotals,
                 columnTotals, result, error>>

\* DeriveColumnKeys without yieldControl of line 45: suspended by the await
\* of line 44 alone
DeriveColumnKeys_noYield ==
  /\ pc = "deriveColumns"
  /\ LET r == getNestedKeysAsync(filteredData, config.columns, "column",
                                 pivotItemThreshold)
     IN IF r.ok
        THEN columnKeys' = r.keys /\ pc' = "yieldAfterColumns"
             /\ UNCHANGED error
        ELSE error' = <<r.error>> /\ pc' = "cardinalityExceeded"
             /\ UNCHANGED columnKeys
  /\ UNCHANGED <<inputs, hook, turn, peer, yields, aborted, abortedAt, filteredData,
                 rowKeys, rowIndex, colIndex, cells, rowTotals, columnTotals,
                 result>>

\* line 44: columnKeys = await getNestedKeysAsync(..., 'column', ...); then
\* suspended by the await and by yieldControl of line 45
DeriveColumnKeys ==
  /\ pc = "deriveColumns"
  /\ LET r == getNestedKeysAsync(filteredData, config.columns, "column",
                                 pivotItemThreshold)
     IN IF r.ok
        THEN columnKeys' = r.keys /\ pc' = "yieldAfterColumns"
             /\ yields' = yields + 1 /\ UNCHANGED error
        ELSE error' = <<r.error>> /\ pc' = "cardinalityExceeded"
             /\ UNCHANGED <<columnKeys, yields>>
  /\ UNCHANGED <<inputs, hook, turn, peer, aborted, abortedAt, filteredData, rowKeys, rowIndex,
                 colIndex, cells, rowTotals, columnTotals, result>>

\* lines 45-53: resumed; the abort check of line 48, then the empty grid
CheckAfterKeys ==
  /\ pc = "yieldAfterColumns"
  /\ IF aborted THEN ThrowAborted
     ELSE pc' = "rowLoop" /\ UNCHANGED error
  /\ UNCHANGED <<inputs, hook, turn, peer, yields, aborted, abortedAt, filteredData, rowKeys,
                 columnKeys, rowIndex, colIndex, cells, rowTotals,
                 columnTotals, result>>

\* RowLoopHead with the loop test rowIndex < rowKeys.length - 1
RowLoopHead_offByOne ==
  /\ pc = "rowLoop"
  /\ pc' = IF rowIndex < Len(rowKeys) - 1 /\ rowIndex % CHUNK_SIZE = 0
           THEN "rowYield" ELSE "afterRows"
  /\ yields' = IF rowIndex < Len(rowKeys) - 1 /\ rowIndex % CHUNK_SIZE = 0
               THEN yields + 1 ELSE yields
  /\ UNCHANGED <<inputs, hook, turn, peer, aborted, abortedAt, filteredData, rowKeys,
                 columnKeys, rowIndex, colIndex, cells, rowTotals,
                 columnTotals, result, error>>

\* lines 56-58: the loop test; rowIndex is a multiple of CHUNK_SIZE here, so
\* a further row means a yield
RowLoopHead ==
  /\ pc = "rowLoop"
  /\ pc' = IF rowIndex < Len(rowKeys) /\ rowIndex % CHUNK_SIZE = 0
           THEN "rowYield" ELSE "afterRows"
  /\ yields' = IF rowIndex < Len(rowKeys) /\ rowIndex % CHUNK_SIZE = 0
               THEN yields + 1 ELSE yields
  /\ UNCHANGED <<inputs, hook, turn, peer, aborted, abortedAt, filteredData, rowKeys,
                 columnKeys, rowIndex, colIndex, cells, rowTotals,
                 columnTotals, result, error>>

Min(a, b) == IF a < b THEN a ELSE b

\* lines 62-92: one row of cells
cellRow(rowKey) ==
  [c \in 1..Len(columnKeys) |->
     LET subsetData == getSubsetDataAsync(filteredData, rowKey, columnKeys[c],
                                          config.rows, config.columns)
     IN [value |-> aggregatedValuesAsync(subsetData, config.values),
         rowKeys |-> rowKey, columnKeys |-> columnKeys[c],
         data |-> subsetData]]

\* rowTotal aggregating all filtered records instead of the row's records
rowTotal_overAllRecords(rowKey) ==
  aggregatedValuesAsync(filteredData, config.values)

\* lines 95-112: the total of one row
rowTotal(rowKey) ==
  aggregatedValuesAsync(
    getSubsetDataAsync(filteredData, rowKey, <<>>, config.rows, <<>>),
    config.values)

\* RowChunk without a yield inside the loop: all remaining rows at once
RowChunk_allRows ==
  /\ pc = "rowYield"
  /\ IF aborted
     THEN ThrowAborted /\ UNCHANGED <<rowIndex, cells, rowTotals>>
     ELSE LET last == Len(rowKeys)
          IN /\ cells' = cells \o [i \in 1..(last - rowIndex) |->
                                     cellRow(rowKeys[rowIndex + i])]
             /\ rowTotals' = rowTotals \o [i \in 1..(last - rowIndex) |->
                                             rowTotal(rowKeys[rowIndex + i])]
             /\ rowIndex' = last
             /\ pc' = "rowLoop"
             /\ UNCHANGED error
  /\ UNCHANGED <<inputs, hook, turn, peer, yields, aborted, abortedAt, filteredData, rowKeys,
                 columnKeys, colIndex, columnTotals, result>>

\* lines 59-113: resumed from the yield of line 58; the abort check, then
\* the rows up to the next multiple of CHUNK_SIZE
RowChunk ==
  /\ pc = "rowYield"
  /\ IF aborted
     THEN ThrowAborted /\ UNCHANGED <<rowIndex, cells, rowTotals>>
     ELSE LET last == Min(rowIndex + CHUNK_SIZE, Len(rowKeys))
          IN /\ cells' = cells \o [i \in 1..(last - rowIndex) |->
                                     cellRow(rowKeys[rowIndex + i])]
             /\ rowTotals' = rowTotals \o [i \in 1..(last - rowIndex) |->
                                             rowTotal(rowKeys[rowIndex + i])]
             /\ rowIndex' = last
             /\ pc' = "rowLoop"
             /\ UNCHANGED error
  /\ UNCHANGED <<inputs, hook, turn, peer, yields, aborted, abortedAt, filteredData, rowKeys,
                 columnKeys, colIndex, columnTotals, result>>

\* line 116: the abort check after the rows
CheckAfterRows ==
  /\ pc = "afterRows"
  /\ IF aborted THEN ThrowAborted
     ELSE pc' = "colLoop" /\ UNCHANGED error
  /\ UNCHANGED <<inputs, hook, turn, peer, yields, aborted, abortedAt, filteredData, rowKeys,
                 columnKeys, rowIndex, colIndex, cells, rowTotals,
                 columnTotals, result>>

\* lines 119-121: the loop test of the column totals
ColLoopHead ==
  /\ pc = "colLoop"
  /\ pc' = IF colIndex < Len(columnKeys) /\ colIndex % CHUNK_SIZE = 0
           THEN "colYield" ELSE "grandTotal"
  /\ yields' = IF colIndex < Len(columnKeys) /\ colIndex % CHUNK_SIZE = 0
               THEN yields + 1 ELSE yields
  /\ UNCHANGED <<inputs, hook, turn, peer, aborted, abortedAt, filteredData, rowKeys,
                 columnKeys, rowIndex, colIndex, cells, rowTotals,
                 columnTotals, result, error>>

\* colTotal aggregating all filtered records instead of the column's records
colTotal_overAllRecords(colKey) ==
  aggregatedValuesAsync(filteredData, config.values)

\* lines 125-143: the total of one column
colTotal(colKey) ==
  aggregatedValuesAsync(
    getSubsetDataAsync(filteredData, <<>>, colKey, <<>>, config.columns),
    config.values)

\* ColChunk without the abort check of line 122
ColChunk_noAbortCheck ==
  /\ pc = "colYield"
  /\ LET last == Min(colIndex + CHUNK_SIZE, Len(columnKeys))
     IN /\ columnTotals' =
             columnTotals \o [i \in 1..(last - colIndex) |->
                                colTotal(columnKeys[colIndex + i])]
        /\ colIndex' = last
        /\ pc' = "colLoop"
  /\ UNCHANGED <<inputs, hook, turn, peer, yields, aborted, abortedAt, filteredData, rowKeys,
                 columnKeys, rowIndex, cells, rowTotals, result, error>>

\* lines 122-144: resumed from the yield of line 121; the abort check, then
\* the column totals up to the next multiple of CHUNK_SIZE
ColChunk ==
  /\ pc = "colYield"
  /\ IF aborted
     THEN ThrowAborted /\ UNCHANGED <<colIndex, columnTotals>>
     ELSE LET last == Min(colIndex + CHUNK_SIZE, Len(columnKeys))
          IN /\ columnTotals' =
                  columnTotals \o [i \in 1..(last - colIndex) |->
                                     colTotal(columnKeys[colIndex + i])]
             /\ colIndex' = last
             /\ pc' = "colLoop"
             /\ UNCHANGED error
  /\ UNCHANGED <<inputs, hook, turn, peer, yields, aborted, abortedAt, filteredData, rowKeys,
                 columnKeys, rowIndex, cells, rowTotals, result>>

\* lines 147-164: the grand total and the returned PivotTable
GrandTotal ==
  /\ pc = "grandTotal"
  /\ result' = <<[rowHeaders |-> rowKeys,
                  columnHeaders |-> columnKeys,
                  cells |-> cells,
                  rowTotals |-> rowTotals,
                  columnTotals |-> columnTotals,
                  grandTotal |->
                    aggregatedValuesAsync(filteredData, config.values)]>>
  /\ pc' = "completed"
  /\ UNCHANGED <<inputs, hook, turn, peer, yields, aborted, abortedAt, filteredData, rowKeys,
                 columnKeys, rowIndex, colIndex, cells, rowTotals,
                 columnTotals, error>>

Next ==
  \/ Cancel
  \/ Filter
  \/ CheckStart
  \/ DeriveRowKeys
  \/ ResumeAfterRows
  \/ DeriveColumnKeys
  \/ CheckAfterKeys
  \/ RowLoopHead
  \/ RowChunk
  \/ CheckAfterRows
  \/ ColLoopHead
  \/ ColChunk
  \/ GrandTotal

Spec == Init /\ [][Next]_vars

(***************************************************************************)
(* Two invocations on one event loop.  Only one of them runs at a time; the *)
(* other one is suspended at a yield (or not yet called, or ended) and its  *)
(* local state is kept in peer.  The event loop hands control over only     *)
(* while the running invocation is itself suspended.                        *)
(***************************************************************************)
InFlight(p) == p \notin Terminal \cup {"created"}

\* the local state of the running invocation
Invocation ==
  [data |-> data, config |-> config, pivotItemThreshold |-> pivotItemThreshold,
   aborted |-> aborted, abortedAt |-> abortedAt, pc |-> pc,
   filteredData |-> filteredData, rowKeys |-> rowKeys,
   columnKeys |-> columnKeys, rowIndex |-> rowIndex, colIndex |-> colIndex,
   cells |-> cells, rowTotals |-> rowTotals, columnTotals |-> columnTotals,
   result |-> result, error |-> error, yields |-> yields,
   overlapped |-> peer[1].overlapped
                    \/ (InFlight(pc) /\ InFlight(peer[1].pc))]

\* an invocation that has not been called yet
NewInvocation(d, c, t) ==
  [data |-> d, config |-> c, pivotItemThreshold |-> t,
   aborted |-> FALSE, abortedAt |-> "never", pc |-> "created",
   filteredData |-> <<>>, rowKeys |-> <<>>, columnKeys |-> <<>>,
   rowIndex |-> 0, colIndex |-> 0, cells |-> <<>>, rowTotals |-> <<>>,
   columnTotals |-> <<>>, result |-> <<>>, error |-> <<>>, yields |-> 0,
   overlapped |-> FALSE]

\* lines 30-32: setTimeout(resolve, 0) lets the event loop run the other
\* invocation (or its caller) while this one is suspended
Switch ==
  /\ pc \in Suspended \cup Terminal \cup {"created"}
  /\ peer' = <<Invocation>>
  /\ data' = peer[1].data
  /\ config' = peer[1].config
  /\ pivotItemThreshold' = peer[1].pivotItemThreshold
  /\ aborted' = peer[1].aborted
  /\ abortedAt' = peer[1].abortedAt
  /\ pc' = peer[1].pc
  /\ filteredData' = peer[1].filteredData
  /\ rowKeys' = peer[1].rowKeys
  /\ columnKeys' = peer[1].columnKeys
  /\ rowIndex' = peer[1].rowIndex
  /\ colIndex' = peer[1].colIndex
  /\ cells' = peer[1].cells
  /\ rowTotals' = peer[1].rowTotals
  /\ columnTotals' = peer[1].columnTotals
  /\ result' = peer[1].result
  /\ error' = peer[1].error
  /\ yields' = peer[1].yields
  /\ UNCHANGED <<hook, turn>>

\* the record sets of the two invocations
PairDataSets ==
  {d \in DataSets : Len(d) = MaxRecords - 1
                      /\ \A i \in 1..Len(d) : d[i].f = Num(10)}

\* a grouping that fails on two distinct values of g, and a deep one that
\* builds its cells in two chunks
PairConfigs ==
  {[config |-> [rows |-> <<"g">>, columns |-> <<"f">>,
                values |-> <<[field |-> "f", aggregation |-> "sum"]>>,
                filters |-> <<>>],
    pivotItemThreshold |-> 1],
   [config |-> [rows |-> DeepAxis, columns |-> <<>>, values |-> <<>>,
                filters |-> <<>>],
    pivotItemThreshold |-> 2]}

InitPair ==
  /\ data \in PairDataSets
  /\ \E pc1 \in PairConfigs :
       config = pc1.config /\ pivotItemThreshold = pc1.pivotItemThreshold
  /\ aborted = FALSE
  /\ abortedAt = "never"
  /\ pc = "created"
  /\ filteredData = <<>>
  /\ rowKeys = <<>>
  /\ columnKeys = <<>>
  /\ rowIndex = 0
  /\ colIndex = 0
  /\ cells = <<>>
  /\ rowTotals = <<>>
  /\ columnTotals = <<>>
  /\ result = <<>>
  /\ error = <<>>
  /\ yields = 0
  /\ hook = Unmounted
  /\ turn = 0
  /\ \E d \in PairDataSets : \E pc2 \in PairConfigs :
       peer = <<NewInvocation(d, pc2.config, pc2.pivotItemThreshold)>>

NextPair ==
  \/ Cancel
  \/ Filter
  \/ CheckStart
  \/ DeriveRowKeys
  \/ ResumeAfterRows
  \/ DeriveColumnKeys
  \/ CheckAfterKeys
  \/ RowLoopHead
  \/ RowChunk
  \/ CheckAfterRows
  \/ ColLoopHead
  \/ ColChunk
  \/ GrandTotal
  \/ Switch

SpecPair == InitPair /\ [][NextPair]_vars

(***************************************************************************)
(* Key derivation on string values: numeric strings, strings with a        *)
(* numeric prefix, signed strings.                                         *)
(***************************************************************************)
SortValues == {Str("2"), Str("10"), Str("2x"), Str("+5"), Str("+a")}

SortDataSets ==
  UNION {{[i \in 1..n |-> [id |-> Num(i), f |-> c[i]]] :
            c \in [1..n -> SortValues]} : n \in 0..MaxRecords}

SortConfigs ==
  {[rows |-> <<"f">>, columns |-> <<>>, values |-> <<>>, filters |-> <<>>]}

SortThresholds == {1, Cardinality(SortValues)}

InitSort ==
  /\ data \in SortDataSets
  /\ config \in SortConfigs
  /\ pivotItemThreshold \in SortThresholds
  /\ aborted = FALSE
  /\ abortedAt = "never"
  /\ pc = "created"
  /\ filteredData = <<>>
  /\ rowKeys = <<>>
  /\ columnKeys = <<>>
  /\ rowIndex = 0
  /\ colIndex = 0
  /\ cells = <<>>
  /\ rowTotals = <<>>
  /\ columnTotals = <<>>
  /\ result = <<>>
  /\ error = <<>>
  /\ peer = <<>>
  /\ yields = 0
  /\ hook = Unmounted
  /\ turn = 0

SpecSort == InitSort /\ [][Next]_vars

(***************************************************************************)
(* Every aggregation kind, and a kind that is none of the thirteen, on the *)
(* subsets of a table grouped on both axes.                                *)
(***************************************************************************)
UnknownKind == "unknown"

\* the records aggregated: f null, a number, a numeric string or a string
\* that does not parse; g a string or absent
AggItems ==
  {<<Null, Str("a")>>, <<Num(10), Missing>>, <<Str("7"), Str("a")>>,
   <<Str("a"), Missing>>}

AggDataSets ==
  UNION {{[i \in 1..n |-> Item(i, c[i][1], c[i][2])] :
            c \in [1..n -> AggItems]} : n \in 0..MaxRecords}

AggConfigs ==
  {[rows |-> <<"f">>, columns |-> <<"g">>,
    values |-> <<[field |-> fld, aggregation |-> fn],
                 [field |-> "f", aggregation |-> UnknownKind]>>,
    filters |-> <<>>] : fld \in {"f", "g"}, fn \in AggregationFunctions}

InitAgg ==
  /\ data \in AggDataSets
  /\ config \in AggConfigs
  /\ pivotItemThreshold = Cardinality(AggItems)
  /\ aborted = FALSE
  /\ abortedAt = "never"
  /\ pc = "created"
  /\ filteredData = <<>>
  /\ rowKeys = <<>>
  /\ columnKeys = <<>>
  /\ rowIndex = 0
  /\ colIndex = 0
  /\ cells = <<>>
  /\ rowTotals = <<>>
  /\ columnTotals = <<>>
  /\ result = <<>>
  /\ error = <<>>
  /\ peer = <<>>
  /\ yields = 0
  /\ hook = Unmounted
  /\ turn = 0

SpecAgg == InitAgg /\ [][Next]_vars

(***************************************************************************)
(* An invocation whose zero-delay timers fire and whose continuations run: *)
(* every step of the invocation itself is taken when it stays enabled.     *)
(* The caller's abort() is under no such obligation.                       *)
(***************************************************************************)
FairDataSets == PairDataSets \cup {<<>>}

FairConfigs ==
  PairConfigs
    \cup {[config |-> [rows |-> <<>>, columns |-> DeepAxis,
                       values |-> <<[field |-> "f", aggregation |-> "sum"]>>,
                       filters |-> <<>>],
           pivotItemThreshold |-> 2]}

InitFair ==
  /\ data \in FairDataSets
  /\ \E fc \in FairConfigs :
       config = fc.config /\ pivotItemThreshold = fc.pivotItemThreshold
  /\ aborted = FALSE
  /\ abortedAt = "never"
  /\ pc = "created"
  /\ filteredData = <<>>
  /\ rowKeys = <<>>
  /\ columnKeys = <<>>
  /\ rowIndex = 0
  /\ colIndex = 0
  /\ cells = <<>>
  /\ rowTotals = <<>>
  /\ columnTotals = <<>>
  /\ result = <<>>
  /\ error = <<>>
  /\ peer = <<>>
  /\ yields = 0
  /\ hook = Unmounted
  /\ turn = 0

\* the positions of an invocation that has not settled
Running ==
  {"created", "checkStart", "deriveRows", "yieldAfterRows", "deriveColumns",
   "yieldAfterColumns", "rowLoop", "rowYield", "afterRows", "colLoop",
   "colYield", "grandTotal"}

\* a step of the invocation itself: it is the only kind of step that moves
\* pc (Cancel leaves pc alone), and one is possible at every position of
\* Running, since no step of the invocation waits for anything but the
\* event loop
Run ==
  /\ pc \in Running
  /\ pc' \in (Running \cup Terminal) \ {pc}

\* the event loop runs every continuation it has queued
SpecFair == InitFair /\ [][Next]_vars /\ WF_pc(Run)

(***************************************************************************)
(* What the specification says of a result, stated without the builders'   *)
(* helpers.                                                                *)
(***************************************************************************)
\* the coerced value of a field: null, undefined and missing become 'null'
Stringify(item, field) ==
  IF field \notin DOMAIN item THEN "null"
  ELSE IF item[field].k \in {"null", "undefined"} THEN "null"
  ELSE IF item[field].k = "number" THEN NumToStr(item[field].n)
  ELSE item[field].s

PassesFilters(item) ==
  \A i \in 1..Len(config.filters) :
    \/ config.filters[i].values = <<>>
    \/ \E j \in 1..Len(config.filters[i].values) :
         config.filters[i].values[j] = Stringify(item, config.filters[i].field)

FilteredRecords == {item \in Range(data) : PassesFilters(item)}

MatchesKey(item, fields, key) ==
  \A i \in 1..Len(fields) : Stringify(item, fields[i]) = key[i]

DistinctValues(field) == {Stringify(item, field) : item \in FilteredRecords}

\* the PivotTable generatePivotTable returns for the inputs
SyncTable == generatePivotTable(data, config)

\* the PivotTable a completed generatePivotTableAsync has returned
AsyncTable == result[1]

Completed == pc = "completed"

\* C1: in every returned PivotTable, cells[r][c] carries rowHeaders[r] and
\* columnHeaders[c] as its keys, and its data is exactly the filtered records
\* whose coerced row-field and column-field values equal those keys.
CellIntegrity(t) ==
  \A r \in 1..Len(t.cells) : \A c \in 1..Len(t.cells[r]) :
    /\ t.cells[r][c].rowKeys = t.rowHeaders[r]
    /\ t.cells[r][c].columnKeys = t.columnHeaders[c]
    /\ Range(t.cells[r][c].data) =
         {item \in FilteredRecords :
            /\ MatchesKey(item, config.rows, t.rowHeaders[r])
            /\ MatchesKey(item, config.columns, t.columnHeaders[c])}

C1_CellDataExact ==
  /\ pc = "created" => CellIntegrity(SyncTable)
  /\ Completed => CellIntegrity(AsyncTable)

\* a completed grouped table with a non-empty cell keyed by a coerced null
\* on both axes, next to a cell that holds only some of the filtered records
C1_Witness ==
  /\ Completed
  /\ \E r \in 1..Len(AsyncTable.cells) : \E c \in 1..Len(AsyncTable.cells[r]) :
       /\ AsyncTable.cells[r][c].data # <<>>
       /\ Len(AsyncTable.cells[r][c].data) < Len(filteredData)
       /\ "null" \in Range(AsyncTable.cells[r][c].rowKeys)
       /\ "null" \in Range(AsyncTable.cells[r][c].columnKeys)

\* C2: in every returned PivotTable the grid has one row of cells and one
\* row total per row header, and one cell per row and one column total per
\* column header.
Dimensions(t) ==
  /\ Len(t.cells) = Len(t.rowHeaders)
  /\ \A r \in 1..Len(t.cells) : Len(t.cells[r]) = Len(t.columnHeaders)
  /\ Len(t.rowTotals) = Len(t.rowHeaders)
  /\ Len(t.columnTotals) = Len(t.columnHeaders)

C2_Dimensions ==
  /\ pc = "created" => Dimensions(SyncTable)
  /\ Completed => Dimensions(AsyncTable)

\* a completed table of more rows than one chunk
C2_Witness ==
  /\ Completed
  /\ Len(AsyncTable.rowHeaders) > CHUNK_SIZE
  /\ Len(AsyncTable.cells) > CHUNK_SIZE

\* C3: the headers of an axis with grouping fields are the cartesian product
\* of the per-field sets of distinct coerced values of the filtered records,
\* without duplicates; combinations no record matches are present and their
\* cells carry the empty defaults; an axis without fields has the single
\* empty tuple.
RECURSIVE Product(_, _)
Product(fields, i) ==
  IF i > Len(fields) THEN 1
  ELSE Cardinality(DistinctValues(fields[i])) * Product(fields, i + 1)

IsCartesian(headers, fields) ==
  IF fields = <<>> THEN headers = << <<>> >>
  ELSE /\ \A h \in 1..Len(headers) :
            /\ Len(headers[h]) = Len(fields)
            /\ \A i \in 1..Len(fields) :
                 headers[h][i] \in DistinctValues(fields[i])
       /\ Cardinality(Range(headers)) = Len(headers)
       /\ Len(headers) = Product(fields, 1)

EmptyDefaults(value) ==
  IF config.values = <<>> THEN value = ("Count" :> AggNum(0, 1))
  ELSE \A key \in DOMAIN value : value[key] = AggNum(0, 1)

FullProduct(t) ==
  /\ IsCartesian(t.rowHeaders, config.rows)
  /\ IsCartesian(t.columnHeaders, config.columns)
  /\ \A r \in 1..Len(t.cells) : \A c \in 1..Len(t.cells[r]) :
       t.cells[r][c].data = <<>> => EmptyDefaults(t.cells[r][c].value)

C3_HeadersAreCartesianProduct ==
  /\ pc = "created" => FullProduct(SyncTable)
  /\ Completed => FullProduct(AsyncTable)

\* a completed table grouped on both axes, after a filter removed a record,
\* with a combination that no record matches
C3_Witness ==
  /\ Completed
  /\ config.rows # <<>>
  /\ config.columns # <<>>
  /\ Len(filteredData) < Len(data)
  /\ \E r \in 1..Len(AsyncTable.cells) : \E c \in 1..Len(AsyncTable.cells[r]) :
       AsyncTable.cells[r][c].data = <<>>

\* C4: a completed generatePivotTableAsync has returned the PivotTable that
\* generatePivotTable returns for the same records and config.
C4_AsyncEqualsSync == Completed => AsyncTable = SyncTable

\* a completed table built in more than one chunk of rows, with records in
\* its cells
C4_Witness ==
  /\ Completed
  /\ Len(AsyncTable.cells) > CHUNK_SIZE
  /\ \E r \in 1..Len(AsyncTable.cells) : AsyncTable.cells[r][1].data # <<>>

\* C5: when the token is cancelled before the invocation, the invocation
\* ends with the Aborted error right after filtering: no key derivation, no
\* cardinality error, no PivotTable.
C5_CancelledBeforeStart ==
  abortedAt = "created" =>
    /\ pc \in {"created", "checkStart", "cancelled"}
    /\ pc = "cancelled" => error = <<AbortedError>>
    /\ rowKeys = <<>> /\ columnKeys = <<>> /\ cells = <<>>
    /\ result = <<>>

\* cancelled before the start, with a row field over the threshold
C5_Witness ==
  /\ abortedAt = "created"
  /\ pc = "cancelled"
  /\ \E i \in 1..Len(config.rows) :
       Cardinality(DistinctValues(config.rows[i])) > pivotItemThreshold

\* C6: once the token is cancelled while the invocation is suspended (or
\* before it starts), the invocation never returns a PivotTable: a table is
\* returned only with the token not cancelled.
C6_NoTableAfterCancel ==
  /\ aborted => result = <<>> /\ pc # "completed"
  /\ result # <<>> <=> pc = "completed"

\* cancelled at the last yield, in the second chunk of the column totals,
\* with every cell and column total of the first chunk already built
C6_Witness ==
  /\ pc = "cancelled"
  /\ abortedAt = "colYield"
  /\ colIndex = CHUNK_SIZE
  /\ Len(columnTotals) = CHUNK_SIZE
  /\ cells # <<>>

\* C7: a cancellation during the suspension after the row keys ends the
\* invocation with the Aborted error before the column keys are derived, so
\* no cancelled invocation ends with a cardinality error.
C7_CancelBeforeColumnKeys == aborted => pc # "cardinalityExceeded"

\* C8: without cancellation the invocation ends with PivotValidationError
\* exactly when a row or column field has more distinct coerced values among
\* the filtered records than the threshold; the error names such a field of
\* the axis it names, with its distinct count, and no cell has been built.
SomeFieldOver ==
  \E field \in Range(config.rows) \cup Range(config.columns) :
    Cardinality(DistinctValues(field)) > pivotItemThreshold

AxisFields(fieldType) ==
  IF fieldType = "row" THEN config.rows ELSE config.columns

C8_CardinalityBoundary ==
  /\ (~aborted /\ pc \in Terminal) =>
       (pc = "cardinalityExceeded" <=> SomeFieldOver)
  /\ (~aborted /\ pc \notin {"created", "checkStart", "deriveRows",
                             "yieldAfterRows", "deriveColumns"}
        /\ pc # "cardinalityExceeded") => ~SomeFieldOver
  /\ pc = "cardinalityExceeded" =>
       /\ error[1].name = "PivotValidationError"
       /\ error[1].fieldType \in {"row", "column"}
       /\ error[1].fieldName \in Range(AxisFields(error[1].fieldType))
       /\ error[1].distinctCount =
            Cardinality(DistinctValues(error[1].fieldName))
       /\ error[1].distinctCount > pivotItemThreshold
       /\ cells = <<>> /\ rowTotals = <<>> /\ columnTotals = <<>>
       /\ result = <<>>

\* the error of a field with exactly threshold + 1 distinct values, every
\* other field having at most threshold
C8_Witness ==
  /\ pc = "cardinalityExceeded"
  /\ ~aborted
  /\ error[1].distinctCount = pivotItemThreshold + 1
  /\ \E field \in Range(config.rows) \cup Range(config.columns) :
       Cardinality(DistinctValues(field)) = pivotItemThreshold

\* C9: rows are validated before columns, and within an axis the error
\* names the first field, in configured order, that is over the threshold.
FieldOver(fields, i) ==
  Cardinality(DistinctValues(fields[i])) > pivotItemThreshold

C9_RowsBeforeColumns ==
  pc = "cardinalityExceeded" =>
    /\ (\E i \in 1..Len(config.rows) : FieldOver(config.rows, i))
         => error[1].fieldType = "row"
    /\ \E i \in 1..Len(AxisFields(error[1].fieldType)) :
         /\ FieldOver(AxisFields(error[1].fieldType), i)
         /\ \A j \in 1..(i - 1) : ~FieldOver(AxisFields(error[1].fieldType), j)
         /\ error[1].fieldName = AxisFields(error[1].fieldType)[i]

\* both axes over the threshold, the row axis with two fields over it
C9_Witness ==
  /\ pc = "cardinalityExceeded"
  /\ \E i \in 1..Len(config.columns) : FieldOver(config.columns, i)
  /\ Len(config.rows) = 2
  /\ FieldOver(config.rows, 1) /\ FieldOver(config.rows, 2)
  /\ config.rows[1] # config.rows[2]

\* the phases of an invocation, by the place it has reached
PhaseOf(p) ==
  CASE p = "created" -> "Created"
    [] p = "checkStart" -> "Filtering"
    [] p \in {"deriveRows", "yieldAfterRows"} -> "DerivingRowKeys"
    [] p \in {"deriveColumns", "yieldAfterColumns"} -> "DerivingColumnKeys"
    [] p \in {"rowLoop", "rowYield", "afterRows"} -> "BuildingCells"
    [] p \in {"colLoop", "colYield"} -> "ComputingColumnTotals"
    [] p = "grandTotal" -> "ComputingGrandTotal"
    [] p = "completed" -> "Completed"
    [] p = "cancelled" -> "Cancelled"
    [] p = "cardinalityExceeded" -> "CardinalityExceeded"

PhaseOrder ==
  <<"Created", "Filtering", "DerivingRowKeys", "DerivingColumnKeys",
    "BuildingCells", "ComputingColumnTotals", "ComputingGrandTotal",
    "Completed">>

NonTerminalPhases ==
  {"Filtering", "DerivingRowKeys", "DerivingColumnKeys", "BuildingCells",
   "ComputingColumnTotals", "ComputingGrandTotal"}

\* C10: the phases follow one another in the order of PhaseOrder, the three
\* outcomes are absorbing and exclusive, and every non-terminal phase has a
\* checkpoint: an invocation whose token is cancelled leaves the phase it is
\* in for Cancelled, not for the next phase.
C10_PhasesAndCheckpoints ==
  /\ [][LET p == PhaseOf(pc)
            q == PhaseOf(pc')
        IN /\ q # p =>
                \/ \E i \in 1..(Len(PhaseOrder) - 1) :
                     p = PhaseOrder[i] /\ q = PhaseOrder[i + 1]
                \/ /\ p \in NonTerminalPhases
                   /\ q \in {"Cancelled", "CardinalityExceeded"}
           /\ pc \in Terminal => pc' = pc
           /\ (aborted /\ p \in NonTerminalPhases /\ q # p) => q = "Cancelled"
       ]_vars
  /\ [](/\ result # <<>> <=> pc = "completed"
        /\ error # <<>> <=> pc \in {"cancelled", "cardinalityExceeded"})

\* the outcome of an invocation run alone on records d with config c and
\* threshold t, its token cancelled at the place at ("never": not cancelled)
AloneOutcome(d, c, t, at) ==
  LET fd == filterDataAsync(d, c.filters)
      rk == getNestedKeysAsync(fd, c.rows, "row", t)
      ck == getNestedKeysAsync(fd, c.columns, "column", t)
  IN IF at = "created"
     THEN [pc |-> "cancelled", result |-> <<>>, error |-> <<AbortedError>>]
     ELSE IF ~rk.ok
     THEN [pc |-> "cardinalityExceeded", result |-> <<>>,
           error |-> <<rk.error>>]
     ELSE IF ~ck.ok
     THEN [pc |-> "cardinalityExceeded", result |-> <<>>,
           error |-> <<ck.error>>]
     ELSE IF at # "never"
     THEN [pc |-> "cancelled", result |-> <<>>, error |-> <<AbortedError>>]
     ELSE [pc |-> "completed", result |-> <<generatePivotTable(d, c)>>,
           error |-> <<>>]

OutcomeAsAlone(s) ==
  /\ s.aborted <=> s.abortedAt # "never"
  /\ s.pc \in Terminal =>
       [pc |-> s.pc, result |-> s.result, error |-> s.error] =
         AloneOutcome(s.data, s.config, s.pivotItemThreshold, s.abortedAt)

\* C11: of two invocations interleaved at their yields, each one ends with
\* the outcome it has when run alone on its own inputs with its own token
\* cancelled at the same place; an invocation whose own token was never
\* cancelled ends as an uncancelled invocation run alone.
C11_NoInterference ==
  /\ OutcomeAsAlone(Invocation)
  /\ OutcomeAsAlone(peer[1])

\* both invocations were in flight together; the one on other records was
\* cancelled in its cell loop, this one completed a table of two chunks
C11_Witness ==
  /\ pc = "completed"
  /\ ~aborted
  /\ rowIndex > CHUNK_SIZE
  /\ peer[1].pc = "cancelled"
  /\ peer[1].abortedAt = "rowYield"
  /\ peer[1].overlapped
  /\ peer[1].data # data

\* C12: the filter stage returns, in input order and once each, exactly the
\* records that every filter with a non-empty allow-list admits by their
\* coerced value; filters with an empty allow-list and an empty filter list
\* remove nothing.
FilterExact(out) ==
  /\ Range(out) = FilteredRecords
  /\ \A i \in 1..Len(out) : \A j \in 1..Len(out) :
       i < j => out[i].id.n < out[j].id.n
  /\ (\A i \in 1..Len(config.filters) : config.filters[i].values = <<>>)
       => out = data

C12_FilterExact ==
  /\ pc = "created" => FilterExact(filterData(data, config.filters))
  /\ pc # "created" => FilterExact(filteredData)

\* filtered by an empty allow-list on f and an allow-list on g: a record
\* without g is kept as 'null', another record is removed
C12_Witness ==
  /\ pc = "checkStart"
  /\ \E i \in 1..Len(config.filters) : config.filters[i].values = <<>>
  /\ \E i \in 1..Len(config.filters) : config.filters[i].values # <<>>
  /\ Len(filteredData) < Len(data)
  /\ \E i \in 1..Len(filteredData) : "g" \notin DOMAIN filteredData[i]

\* C13: every aggregated map (cell, row total, column total, grand total) is
\* {'Count': N} for its subset of N records when no value field is
\* configured, and otherwise has exactly the keys '<field> (<kind>)' of the
\* configured pairs, each valued aggregate(subset, field, kind); the subsets
\* are the cell's records, the filtered records matching the row key, those
\* matching the column key, and all filtered records.
FilteredSeq == SelectSeq(data, PassesFilters)

MatchingSeq(fields, key) ==
  LET m(item) == MatchesKey(item, fields, key)
  IN SelectSeq(FilteredSeq, m)

KeyOf(v) == v.field \o " (" \o v.aggregation \o ")"

AggMapExact(value, subset) ==
  IF config.values = <<>>
  THEN /\ DOMAIN value = {"Count"}
       /\ value["Count"] = AggNum(Len(subset), 1)
  ELSE /\ DOMAIN value = {KeyOf(config.values[i]) :
                            i \in 1..Len(config.values)}
       /\ \A i \in 1..Len(config.values) :
            value[KeyOf(config.values[i])] =
              aggregate(subset, config.values[i].field,
                        config.values[i].aggregation)

AggregatedMaps(t) ==
  /\ \A r \in 1..Len(t.cells) : \A c \in 1..Len(t.cells[r]) :
       AggMapExact(t.cells[r][c].value, t.cells[r][c].data)
  /\ \A r \in 1..Len(t.rowTotals) :
       AggMapExact(t.rowTotals[r], MatchingSeq(config.rows, t.rowHeaders[r]))
  /\ \A c \in 1..Len(t.columnTotals) :
       AggMapExact(t.columnTotals[c],
                   MatchingSeq(config.columns, t.columnHeaders[c]))
  /\ AggMapExact(t.grandTotal, FilteredSeq)

C13_AggregatedMaps ==
  /\ pc = "created" => AggregatedMaps(SyncTable)
  /\ Completed => AggregatedMaps(AsyncTable)

\* a completed table with value fields, grouped on both axes, whose row
\* totals cover more records than a cell and less than the grand total
C13_Witness ==
  /\ Completed
  /\ config.values # <<>>
  /\ \E r \in 1..Len(AsyncTable.cells) : \E c \in 1..Len(AsyncTable.cells[r]) :
       /\ AsyncTable.cells[r][c].data # <<>>
       /\ AsyncTable.cells[r][c].value["f (sum)"] # AggNum(0, 1)
       /\ AsyncTable.rowTotals[r]["g (count)"] #
            AsyncTable.cells[r][c].value["g (count)"]
       /\ AsyncTable.rowTotals[r]["g (count)"] #
            AsyncTable.grandTotal["g (count)"]

\* C14: for the entries of kind sum, count and integerSum, and for the
\* default 'Count' entry, each row total is the sum of that entry over the
\* row's cells and each column total the sum over the column's cells (the
\* records hold integers).
AdditiveKeys ==
  IF config.values = <<>> THEN {"Count"}
  ELSE {KeyOf(config.values[i]) :
          i \in {j \in 1..Len(config.values) :
                   config.values[j].aggregation \in
                     {"sum", "count", "integerSum"}}}

IsInteger(v) == v.k = "number" /\ v.d = 1

TotalsAdditive(t) ==
  \A key \in AdditiveKeys :
    /\ \A r \in 1..Len(t.rowTotals) :
         /\ IsInteger(t.rowTotals[r][key])
         /\ t.rowTotals[r][key].n =
              SumSeq([c \in 1..Len(t.cells[r]) |-> t.cells[r][c].value[key].n])
    /\ \A c \in 1..Len(t.columnTotals) :
         /\ IsInteger(t.columnTotals[c][key])
         /\ t.columnTotals[c][key].n =
              SumSeq([r \in 1..Len(t.cells) |-> t.cells[r][c].value[key].n])

C14_TotalsAdditive ==
  /\ pc = "created" => TotalsAdditive(SyncTable)
  /\ Completed => TotalsAdditive(AsyncTable)

\* a completed table with sum, count and integerSum entries in which a row
\* total and a column total each add up two cells that hold records
C14_Witness ==
  /\ Completed
  /\ Cardinality(AdditiveKeys) = 3
  /\ \E r \in 1..Len(AsyncTable.cells) :
       \E c1 \in 1..Len(AsyncTable.cells[r]) :
         \E c2 \in 1..Len(AsyncTable.cells[r]) :
           /\ c1 # c2
           /\ AsyncTable.cells[r][c1].value["f (sum)"].n > 0
           /\ AsyncTable.cells[r][c2].value["f (integerSum)"].n > 0
  /\ \E c \in 1..Len(AsyncTable.columnHeaders) :
       \E r1 \in 1..Len(AsyncTable.cells) : \E r2 \in 1..Len(AsyncTable.cells) :
         /\ r1 # r2
         /\ AsyncTable.cells[r1][c].value["g (count)"].n > 0
         /\ AsyncTable.cells[r2][c].value["g (count)"].n > 0

\* the headers of an axis and the grand total when no record passes the
\* filters
EmptyHeaders(headers, fields) ==
  headers = IF fields = <<>> THEN << <<>> >> ELSE <<>>

DefaultsMap(value) ==
  /\ DOMAIN value = IF config.values = <<>> THEN {"Count"}
                    ELSE {KeyOf(config.values[i]) :
                            i \in 1..Len(config.values)}
  /\ \A key \in DOMAIN value : value[key] = AggNum(0, 1)

\* C15: when no record passes the filters, an axis with grouping fields has
\* no header and an axis without has the single empty tuple, cells is the
\* empty list whichever axes are grouped, and the grand total holds the
\* empty-input default of every value configuration ('Count': 0 without).
EmptyFilteredAllConfigs(t) ==
  /\ EmptyHeaders(t.rowHeaders, config.rows)
  /\ EmptyHeaders(t.columnHeaders, config.columns)
  /\ t.cells = <<>>
  /\ DefaultsMap(t.grandTotal)

C15_EmptyFilteredCellsEmpty ==
  FilteredSeq = <<>> =>
    /\ pc = "created" => EmptyFilteredAllConfigs(SyncTable)
    /\ Completed => EmptyFilteredAllConfigs(AsyncTable)

\* C15 amended: as above, but cells is the empty list only when the row
\* axis has grouping fields; without row grouping cells has the one row of
\* the empty row header, which holds no cell when the column axis is grouped
\* and otherwise the one cell of no records with the empty-input defaults.
EmptyFiltered(t) ==
  /\ EmptyHeaders(t.rowHeaders, config.rows)
  /\ EmptyHeaders(t.columnHeaders, config.columns)
  /\ config.rows # <<>> => t.cells = <<>>
  /\ (config.rows = <<>> /\ config.columns # <<>>) => t.cells = << <<>> >>
  /\ (config.rows = <<>> /\ config.columns = <<>>) =>
       /\ Len(t.cells) = 1 /\ Len(t.cells[1]) = 1
       /\ t.cells[1][1].data = <<>>
       /\ t.cells[1][1].rowKeys = <<>> /\ t.cells[1][1].columnKeys = <<>>
       /\ DefaultsMap(t.cells[1][1].value)
  /\ DefaultsMap(t.grandTotal)

C15_EmptyFiltered ==
  FilteredSeq = <<>> =>
    /\ pc = "created" => EmptyFiltered(SyncTable)
    /\ Completed => EmptyFiltered(AsyncTable)

\* a completed table of records that the filters all removed, without row
\* grouping and with value fields
C15_Witness ==
  /\ Completed
  /\ data # <<>>
  /\ filteredData = <<>>
  /\ config.rows = <<>>
  /\ config.values # <<>>
  /\ AsyncTable.cells # <<>>

\* C16: in the headers of an axis with grouping fields the first field varies
\* slowest: the tuples of one first-field value are contiguous, the
\* first-field values come in the field's sorted order, and the remaining
\* components of each block are the keys derived for the remaining fields
\* alone, in that order.
OutermostSlowest(headers, fields) ==
  fields # <<>> =>
    LET firsts == [i \in 1..Len(headers) |-> headers[i][1]]
        rest == getNestedKeys(FilteredSeq, Tail(fields))
        block(v) ==
          LET starts(h) == h[1] = v
              sel == SelectSeq(headers, starts)
          IN [i \in 1..Len(sel) |-> Tail(sel[i])]
    IN /\ \A i \in 1..Len(firsts) : \A k \in 1..Len(firsts) :
            (i < k /\ firsts[i] = firsts[k]) => firsts[i + 1] = firsts[i]
       /\ SetOrder(firsts, <<>>) =
            ArraySort(uniqueValues(FilteredSeq, fields[1]), "smartSort")
       /\ \A v \in Range(firsts) : block(v) = rest

HeaderOrder(t) ==
  /\ OutermostSlowest(t.rowHeaders, config.rows)
  /\ OutermostSlowest(t.columnHeaders, config.columns)

C16_OutermostSlowest ==
  /\ pc = "created" => HeaderOrder(SyncTable)
  /\ Completed => HeaderOrder(AsyncTable)

\* a completed table whose row axis groups by two different fields of two
\* distinct values each
C16_Witness ==
  /\ Completed
  /\ Len(config.rows) = 2
  /\ config.rows[1] # config.rows[2]
  /\ Len(AsyncTable.rowHeaders) = 4
  /\ AsyncTable.rowHeaders[1][1] = AsyncTable.rowHeaders[2][1]
  /\ AsyncTable.rowHeaders[1][2] = AsyncTable.rowHeaders[3][2]
  /\ AsyncTable.rowHeaders[1][2] # AsyncTable.rowHeaders[2][2]

\* the records in another order
Permute(d, p) == [i \in 1..Len(d) |-> d[p[i]]]

\* C17: the per-field sort is a total order on the distinct coerced values
\* of a field (two different strings never compare as equal, the comparison
\* is antisymmetric and transitive), so the headers are the same for every
\* permutation of the records.
C17_SortTotalDeterministic ==
  LET vals == DistinctValues("f")
  IN /\ \A a \in vals : \A b \in vals :
          /\ a # b => smartSort(a, b) # 0
          /\ Sign(smartSort(a, b)) = 0 - Sign(smartSort(b, a))
     /\ \A a \in vals : \A b \in vals : \A c \in vals :
          (smartSort(a, b) < 0 /\ smartSort(b, c) < 0) => smartSort(a, c) < 0
     /\ \A p \in Permutations(1..Len(data)) :
          /\ getNestedKeys(filterData(Permute(data, p), config.filters),
                           config.rows)
               = getNestedKeys(filterData(data, config.filters), config.rows)
          /\ pc = "yieldAfterRows" =>
               getNestedKeysAsync(
                 filterDataAsync(Permute(data, p), config.filters),
                 config.rows, "row", pivotItemThreshold).keys = rowKeys

\* the place of the first record of the filtered list with the coerced
\* value v
FirstOccurrence(v) ==
  CHOOSE i \in 1..Len(FilteredSeq) :
    /\ Stringify(FilteredSeq[i], "f") = v
    /\ \A j \in 1..(i - 1) : Stringify(FilteredSeq[j], "f") # v

\* C18: two key values that both parse as floats stand in the headers in the
\* order of their parsed numbers, and when the numbers are equal in the order
\* of their first occurrence in the filtered records.
NumericOrder(headers) ==
  \A i \in 1..Len(headers) : \A j \in 1..Len(headers) :
    LET numA == parseFloat(headers[i][1])
        numB == parseFloat(headers[j][1])
    IN (i < j /\ ~numA.nan /\ ~numB.nan) =>
         /\ numA.v <= numB.v
         /\ numA.v = numB.v =>
              FirstOccurrence(headers[i][1]) < FirstOccurrence(headers[j][1])

C18_NumericOrder ==
  /\ pc = "created" => NumericOrder(getNestedKeys(FilteredSeq, config.rows))
  /\ Completed => NumericOrder(AsyncTable.rowHeaders)

\* C19: every element of a cell's data is an input record itself (the
\* record at the place its identity names), no record stands twice in a
\* cell, the records of a cell are in input order, and no step of the
\* builder changes the records, their list or the config.
CellRecordsShared(t) ==
  \A r \in 1..Len(t.cells) : \A c \in 1..Len(t.cells[r]) :
    LET d == t.cells[r][c].data
    IN /\ \A k \in 1..Len(d) :
            /\ d[k].id.n \in 1..Len(data)
            /\ d[k] = data[d[k].id.n]
       /\ \A k \in 1..Len(d) : \A l \in 1..Len(d) :
            k < l => d[k].id.n < d[l].id.n

C19_RecordsSharedNotWritten ==
  /\ [](/\ pc = "created" => CellRecordsShared(SyncTable)
        /\ Completed => CellRecordsShared(AsyncTable))
  /\ [][data' = data /\ config' = config]_vars

\* a completed table with a cell of two records that are not neighbours in
\* the input
C19_Witness ==
  /\ Completed
  /\ \E r \in 1..Len(AsyncTable.cells) : \E c \in 1..Len(AsyncTable.cells[r]) :
       /\ Len(AsyncTable.cells[r][c].data) = 2
       /\ AsyncTable.cells[r][c].data[1].id.n = 1
       /\ AsyncTable.cells[r][c].data[2].id.n = 3

\* C20: aggregate returns the number 0 on an empty record subset for every
\* one of the 13 kinds (never an empty list or an empty string), and for a
\* kind that is none of the 13 on every record subset.
Zero == AggNum(0, 1)

ZeroOn(value, subset) ==
  \A i \in 1..Len(config.values) :
    (subset = <<>> \/ config.values[i].aggregation \notin AggregationFunctions)
      => /\ value[KeyOf(config.values[i])] = Zero
         /\ aggregate(subset, config.values[i].field,
                      config.values[i].aggregation) = Zero

EmptyAndUnknownZero(t) ==
  /\ \A r \in 1..Len(t.cells) : \A c \in 1..Len(t.cells[r]) :
       ZeroOn(t.cells[r][c].value, t.cells[r][c].data)
  /\ \A r \in 1..Len(t.rowTotals) :
       ZeroOn(t.rowTotals[r], MatchingSeq(config.rows, t.rowHeaders[r]))
  /\ \A c \in 1..Len(t.columnTotals) :
       ZeroOn(t.columnTotals[c],
              MatchingSeq(config.columns, t.columnHeaders[c]))
  /\ ZeroOn(t.grandTotal, FilteredSeq)

Subsets(t) ==
  {<<t.cells[r][c].value, t.cells[r][c].data>> :
     r \in 1..Len(t.cells), c \in 1..Len(t.columnHeaders)}
  \cup {<<t.rowTotals[r], MatchingSeq(config.rows, t.rowHeaders[r])>> :
          r \in 1..Len(t.rowTotals)}
  \cup {<<t.columnTotals[c],
          MatchingSeq(config.columns, t.columnHeaders[c])>> :
          c \in 1..Len(t.columnTotals)}
  \cup {<<t.grandTotal, FilteredSeq>>}

\* C21: count is the number of records of the subset, whatever the field
\* holds (null, absent, any value), so every '<field> (count)' entry of a
\* table is the size of its record subset.
CountIsSize(t) ==
  \A vs \in Subsets(t) : \A i \in 1..Len(config.values) :
    config.values[i].aggregation = "count" =>
      vs[1][KeyOf(config.values[i])] = AggNum(Len(vs[2]), 1)

C21_CountIsSize ==
  /\ \A field \in {"f", "g", "h"} :
       aggregate(FilteredSeq, field, "count") = AggNum(Len(FilteredSeq), 1)
  /\ pc = "created" => CountIsSize(SyncTable)
  /\ Completed => CountIsSize(AsyncTable)

\* a completed table counting g, with a cell of two records that have no g
C21_Witness ==
  /\ Completed
  /\ config.values[1] = [field |-> "g", aggregation |-> "count"]
  /\ \E r \in 1..Len(AsyncTable.cells) : \E c \in 1..Len(AsyncTable.cells[r]) :
       /\ Len(AsyncTable.cells[r][c].data) = 2
       /\ \A k \in 1..2 : "g" \notin DOMAIN AsyncTable.cells[r][c].data[k]
       /\ AsyncTable.cells[r][c].value["g (count)"] = AggNum(2, 1)

\* the numbers of a field in a record subset: the values that are neither
\* null nor undefined nor absent and that parse as a float
ParsedValues(subset, field) ==
  LET parses(item) ==
        /\ field \in DOMAIN item
        /\ item[field].k \in {"number", "string"}
        /\ ~parseFloat(String(item[field])).nan
      sel == SelectSeq(subset, parses)
  IN [i \in 1..Len(sel) |-> parseFloat(String(sel[i][field])).v]

\* C22: the numeric kinds leave out null, undefined and unparseable values
\* instead of counting them as zero: sum (and integerSum) is the total of
\* the parsed values, average that total divided by their number, minimum
\* and maximum range over them alone, each 0 when there is none.
NumericExact(value, subset, v) ==
  LET nums == ParsedValues(subset, v.field)
      entry == value[KeyOf(v)]
  IN /\ v.aggregation \in {"sum", "integerSum"} =>
          entry = AggNum(SumSeq(nums), 1)
     /\ v.aggregation = "average" =>
          entry = IF nums = <<>> THEN Zero
                  ELSE AggNum(SumSeq(nums), Len(nums))
     /\ v.aggregation = "minimum" =>
          entry = IF nums = <<>> THEN Zero ELSE AggNum(MinSeq(nums), 1)
     /\ v.aggregation = "maximum" =>
          entry = IF nums = <<>> THEN Zero ELSE AggNum(MaxSeq(nums), 1)

NumericKinds(t) ==
  \A vs \in Subsets(t) : \A i \in 1..Len(config.values) :
    NumericExact(vs[1], vs[2], config.values[i])

C22_UnparseableExcluded ==
  /\ pc = "created" => NumericKinds(SyncTable)
  /\ Completed => NumericKinds(AsyncTable)

\* a completed table averaging f over three records of which two parse
C22_Witness ==
  /\ Completed
  /\ config.values[1] = [field |-> "f", aggregation |-> "average"]
  /\ Len(FilteredSeq) = 3
  /\ Len(ParsedValues(FilteredSeq, "f")) = 2
  /\ AsyncTable.grandTotal["f (average)"] = AggNum(17, 2)

\* the value column of a field: the values that are neither null nor
\* undefined nor absent, in record order
ValueColumn(subset, field) ==
  LET present(item) ==
        field \in DOMAIN item /\ item[field].k \notin {"null", "undefined"}
      sel == SelectSeq(subset, present)
  IN [i \in 1..Len(sel) |-> sel[i][field]]

\* C23: first (last) is the String of the first (last) value of the value
\* column, and the number 0 when the value column is empty, be it for lack
\* of records or because every record's field is null, undefined or absent.
FirstLastExact(value, subset, v) ==
  LET col == ValueColumn(subset, v.field)
      entry == value[KeyOf(v)]
  IN /\ v.aggregation = "first" =>
          entry = IF col = <<>> THEN Zero ELSE AggStr(String(col[1]))
     /\ v.aggregation = "last" =>
          entry = IF col = <<>> THEN Zero ELSE AggStr(String(col[Len(col)]))

FirstLast(t) ==
  \A vs \in Subsets(t) : \A i \in 1..Len(config.values) :
    FirstLastExact(vs[1], vs[2], config.values[i])

C23_FirstLastZeroOnEmptyColumn ==
  /\ pc = "created" => FirstLast(SyncTable)
  /\ Completed => FirstLast(AsyncTable)

\* C24: rows and column totals are produced only by the step that resumes
\* from a yield, at most CHUNK_SIZE of them per yield, the first ones
\* included; that step checks the token first, so with the token cancelled
\* during the yield it ends the invocation with no further row or column.
C24_ChunkedYields ==
  [][/\ rowIndex' # rowIndex =>
          /\ pc = "rowYield" /\ ~aborted
          /\ rowIndex < rowIndex' /\ rowIndex' <= rowIndex + CHUNK_SIZE
     /\ cells' # cells => rowIndex' # rowIndex
     /\ Len(cells') = rowIndex' /\ Len(rowTotals') = rowIndex'
     /\ colIndex' # colIndex =>
          /\ pc = "colYield" /\ ~aborted
          /\ colIndex < colIndex' /\ colIndex' <= colIndex + CHUNK_SIZE
     /\ Len(columnTotals') = colIndex'
     /\ (aborted /\ pc \in {"rowYield", "colYield"}) =>
          /\ pc' = "cancelled"
          /\ UNCHANGED <<rowIndex, colIndex, cells, rowTotals, columnTotals>>
    ]_vars

\* cancelled during the second yield of the cell loop: one chunk of rows
\* built, the remaining rows never processed
C24_Witness ==
  /\ pc = "cancelled"
  /\ abortedAt = "rowYield"
  /\ rowIndex = CHUNK_SIZE
  /\ Len(cells) = CHUNK_SIZE
  /\ Len(rowKeys) > CHUNK_SIZE

\* the number of chunks of n rows or columns
Chunks(n) == (n + CHUNK_SIZE - 1) \div CHUNK_SIZE

\* C25: with its timers firing, every invocation is eventually Completed,
\* Cancelled or CardinalityExceeded, and exactly one of them: a table or an
\* error, never both; a completed invocation with R row headers and C column
\* headers has yielded 2 + ceil(R/100) + ceil(C/100) times; once ended, the
\* invocation takes no further step.
C25_SettlesOnce ==
  /\ <>(pc \in Terminal)
  /\ [](pc \in Terminal =>
          /\ (pc = "completed") <=> (result # <<>>)
          /\ (pc # "completed") <=> (error # <<>>))
  /\ [](Completed =>
          yields = 2 + Chunks(Len(AsyncTable.rowHeaders))
                     + Chunks(Len(AsyncTable.columnHeaders)))
  /\ [][(pc \in Terminal) => (vars' = vars)]_vars

\* a completed invocation that yielded twice in its cell loop and once in
\* its column loop
C25_Witness ==
  /\ Completed
  /\ Len(AsyncTable.rowHeaders) > CHUNK_SIZE
  /\ Len(AsyncTable.columnHeaders) = 1
  /\ yields = 5

\* the number of places of a record list that hold the record
Occurrences(item, subset) ==
  Cardinality({k \in 1..Len(subset) : subset[k] = item})

\* C26: every filtered record is in the data of exactly one cell, once, and
\* matches exactly one row header and exactly one column header (the record
\* subsets of the row and column totals), whatever its grouping fields hold
\* and however often a field is listed; so the sizes of all cell data, and
\* the counts of the row totals and of the column totals, each add up to the
\* number of filtered records.
Partition(t) ==
  LET cellPlaces ==
        (1..Len(t.rowHeaders)) \X (1..Len(t.columnHeaders))
      cellSizes == [r \in 1..Len(t.cells) |->
                      SumSeq([c \in 1..Len(t.cells[r]) |->
                                Len(t.cells[r][c].data)])]
      counted(totals) == SumSeq([k \in 1..Len(totals) |-> totals[k]["Count"].n])
  IN /\ \A i \in 1..Len(FilteredSeq) :
          /\ \E rc \in cellPlaces :
               /\ Occurrences(FilteredSeq[i], t.cells[rc[1]][rc[2]].data) = 1
               /\ \A other \in cellPlaces \ {rc} :
                    Occurrences(FilteredSeq[i],
                                t.cells[other[1]][other[2]].data) = 0
          /\ Cardinality({r \in 1..Len(t.rowHeaders) :
                            MatchesKey(FilteredSeq[i], config.rows,
                                       t.rowHeaders[r])}) = 1
          /\ Cardinality({c \in 1..Len(t.columnHeaders) :
                            MatchesKey(FilteredSeq[i], config.columns,
                                       t.columnHeaders[c])}) = 1
     /\ SumSeq(cellSizes) = Len(FilteredSeq)
     /\ config.values = <<>> =>
          /\ counted(t.rowTotals) = Len(FilteredSeq)
          /\ counted(t.columnTotals) = Len(FilteredSeq)

C26_Partition ==
  /\ pc = "created" => Partition(SyncTable)
  /\ Completed => Partition(AsyncTable)

\* a completed table grouped by f then g in rows and by g then f in columns,
\* holding a record with a null f and no g and two more records, in
\* different cells
C26_Witness ==
  /\ Completed
  /\ config.rows = <<"f", "g">>
  /\ config.columns = <<"g", "f">>
  /\ Len(FilteredSeq) = 3
  /\ \E i \in 1..3 : FilteredSeq[i].f = Null /\ "g" \notin DOMAIN FilteredSeq[i]
  /\ Cardinality({rc \in (1..Len(AsyncTable.rowHeaders))
                          \X (1..Len(AsyncTable.columnHeaders)) :
                     Len(AsyncTable.cells[rc[1]][rc[2]].data) > 0}) >= 2

(***************************************************************************)
(* useDebouncedPivot and the component that ejects a field on a            *)
(* cardinality error.  data, config and pivotItemThreshold are the hook's  *)
(* arguments of the current render; hook holds its state and refs.  A      *)
(* render caused by a changed argument runs the cleanup and the body of    *)
(* the debounce effect in the same step.  A computation is followed from   *)
(* its launch (synchronous up to the yield of line 42 of                   *)
(* pivot-data-async.ts) over the column keys to its end.                   *)
(***************************************************************************)
MaxChanges == 2

\* no record, or a record with g = 'a' followed by records without g (two
\* distinct values of g, one or two of f)
HookDataSets ==
  {<<>>} \cup {d \in DataSets :
                 /\ Len(d) = MaxRecords - 1
                 /\ d[1] = Item(1, Num(10), Str("a"))
                 /\ \A i \in 2..Len(d) : "g" \notin DOMAIN d[i]}

HookConfigs ==
  [rows : {<<>>, <<"f">>}, columns : {<<>>, <<"g">>}, values : {<<>>},
   filters : {<<>>}]

\* the variables of a single invocation, which the hook leaves alone
invocation ==
  <<aborted, abortedAt, pc, filteredData, rowKeys, columnKeys, rowIndex,
    colIndex, cells, rowTotals, columnTotals, result, error, peer, yields>>

RECURSIVE JoinComma(_)
JoinComma(parts) ==
  IF Len(parts) = 0 THEN ""
  ELSE IF Len(parts) = 1 THEN parts[1]
  ELSE parts[1] \o "," \o JoinComma(Tail(parts))

Quote(s) == "\"" \o s \o "\""

JSONArray(parts) == "[" \o JoinComma(parts) \o "]"

\* JSON.stringify of a PivotConfig built as in part_002 lines 119-139
JSONStringify(c) ==
  LET value(v) == "{\"field\":" \o Quote(v.field) \o ",\"aggregation\":"
                    \o Quote(v.aggregation) \o "}"
      filter(f) == "{\"field\":" \o Quote(f.field) \o ",\"values\":"
                     \o JSONArray([i \in 1..Len(f.values) |->
                                     Quote(f.values[i])]) \o "}"
  IN "{\"rows\":" \o JSONArray([i \in 1..Len(c.rows) |-> Quote(c.rows[i])])
       \o ",\"columns\":"
       \o JSONArray([i \in 1..Len(c.columns) |-> Quote(c.columns[i])])
       \o ",\"values\":"
       \o JSONArray([i \in 1..Len(c.values) |-> value(c.values[i])])
       \o ",\"filters\":"
       \o JSONArray([i \in 1..Len(c.filters) |-> filter(c.filters[i])])
       \o "}"

\* the arguments a callback or an effect has closed over
Closure(d, c, t) == [data |-> d, config |-> c, pivotItemThreshold |-> t]

Current == Closure(data, config, pivotItemThreshold)

\* a computation with its AbortController, suspended at the yield of line 42
\* with its filtered records and row keys
Started(cl, fd, rk) ==
  [data |-> cl.data, config |-> cl.config,
   pivotItemThreshold |-> cl.pivotItemThreshold, aborted |-> FALSE,
   at |-> "yieldAfterRows", filteredData |-> fd, rowKeys |-> rk,
   columnKeys |-> <<>>]

ClosureOf(computation) ==
  Closure(computation.data, computation.config,
          computation.pivotItemThreshold)

\* pivot-data-async.ts lines 35 and 41 for the closed-over arguments
RowKeysOf(cl) ==
  getNestedKeysAsync(filterDataAsync(cl.data, cl.config.filters),
                     cl.config.rows, "row", cl.pivotItemThreshold)

\* pivot-data-async.ts line 44 for a computation resumed from line 42
ColumnKeysOf(c) ==
  getNestedKeysAsync(c.filteredData, c.config.columns, "column",
                     c.pivotItemThreshold)

\* pivot-data-async.ts lines 62-92: the cell of a row key and a column key
cellOf(c, rowKey, colKey) ==
  LET subsetData == getSubsetDataAsync(c.filteredData, rowKey, colKey,
                                       c.config.rows, c.config.columns)
  IN [value |-> aggregatedValuesAsync(subsetData, c.config.values),
      rowKeys |-> rowKey, columnKeys |-> colKey, data |-> subsetData]

\* pivot-data-async.ts lines 48-164: the table a computation that has its
\* keys resolves with
TableOf(c) ==
  [rowHeaders |-> c.rowKeys,
   columnHeaders |-> c.columnKeys,
   cells |-> [r \in 1..Len(c.rowKeys) |->
                [k \in 1..Len(c.columnKeys) |->
                   cellOf(c, c.rowKeys[r], c.columnKeys[k])]],
   rowTotals |-> [r \in 1..Len(c.rowKeys) |->
                    aggregatedValuesAsync(
                      getSubsetDataAsync(c.filteredData, c.rowKeys[r], <<>>,
                                         c.config.rows, <<>>),
                      c.config.values)],
   columnTotals |-> [k \in 1..Len(c.columnKeys) |->
                       aggregatedValuesAsync(
                         getSubsetDataAsync(c.filteredData, <<>>,
                                            c.columnKeys[k], <<>>,
                                            c.config.columns),
                         c.config.values)],
   grandTotal |-> aggregatedValuesAsync(c.filteredData, c.config.values)]

\* AbortController.abort() on a ref that may be unset
Abort(ref) ==
  IF ref = <<>> THEN ref ELSE <<[ref[1] EXCEPT !.aborted = TRUE]>>

\* part_002 lines 141-158: the field state with the field of the error
\* removed from the axis of the error
handleValidationError(fieldState, e) ==
  LET keep(f) == f # e.fieldName
  IN IF e.fieldType = "row"
     THEN [fieldState EXCEPT !.rows = SelectSeq(@, keep)]
     ELSE IF e.fieldType = "column"
     THEN [fieldState EXCEPT !.columns = SelectSeq(@, keep)]
     ELSE fieldState

\* use-debounced-pivot.ts lines 81-88: the cleanup of the debounce effect
Cleanup(h) ==
  [h EXCEPT !.timeoutRef = <<>>, !.computationRef = Abort(@)]

\* use-debounced-pivot.ts lines 31-79: the body of the debounce effect, run
\* with the arguments cl of the render
DebounceEffect(h, cl) ==
  IF /\ JSONStringify(cl.config) = h.lastComputedConfig
     /\ Len(h.pivotTable.cells) > 0
  THEN h
  ELSE [h EXCEPT !.timeoutRef = <<cl>>, !.computationRef = Abort(@),
                 !.isComputing = TRUE]

\* a render with changed arguments: cleanup of the last effect, then the body
Rerender(h, cl) == DebounceEffect(Cleanup(h), cl)

\* lines 62-66 and 99-103: the table of the computation c is committed
Commit(h, c) ==
  [h EXCEPT !.pivotTable = TableOf(c),
            !.lastComputedConfig = JSONStringify(c.config),
            !.isComputing = FALSE, !.committed = <<ClosureOf(c)>>]

\* lines 68-72 and 105-109: the error e of the computation over cl is given
\* to the handleValidationError that closed over the field state of cl; the
\* new field state makes a new config, and the hook renders again
Report(h, cl, e) ==
  LET fieldState == handleValidationError(
                      [rows |-> cl.config.rows,
                       columns |-> cl.config.columns], e)
  IN /\ config' = [config EXCEPT !.rows = fieldState.rows,
                                 !.columns = fieldState.columns]
     /\ hook' = Rerender([h EXCEPT !.isComputing = FALSE,
                                   !.reported = <<e>>, !.failures = @ + 1],
                         Closure(data, config', pivotItemThreshold))
     /\ UNCHANGED <<data, pivotItemThreshold>>

\* the synchronous start of generatePivotTableAsync: the computation is
\* suspended at line 42, or has failed on the row keys
Launched(cl) ==
  LET fd == filterDataAsync(cl.data, cl.config.filters)
  IN IF RowKeysOf(cl).ok THEN Started(cl, fd, RowKeysOf(cl).keys)
     ELSE [Started(cl, fd, <<>>) EXCEPT !.at = "settled"]

\* the first render: the debounce effect, then the initial effect
\* (lines 92-118), whose computation is launched at once
Mount ==
  /\ ~hook.mounted
  /\ LET h == [DebounceEffect(hook, Current) EXCEPT
                 !.mounted = TRUE, !.isComputing = TRUE,
                 !.initial = <<Launched(Current)>>,
                 !.ejectable = Len(config.rows) + Len(config.columns)]
     IN IF RowKeysOf(Current).ok
        THEN hook' = h /\ UNCHANGED inputs
        ELSE Report(h, Current, RowKeysOf(Current).error)
  /\ turn' = 1 - turn
  /\ UNCHANGED invocation

\* the caller's arguments after a change made by the caller
Changed(h) ==
  [h EXCEPT !.changes = @ + 1, !.failures = 0,
            !.ejectable = Len(config'.rows) + Len(config'.columns)]

\* the user moves a field: a new config
ChangeConfig ==
  /\ hook.mounted
  /\ hook.changes < MaxChanges
  /\ \E c \in HookConfigs \ {config} :
       /\ config' = c
       /\ hook' = Rerender(Changed(hook),
                           Closure(data, c, pivotItemThreshold))
  /\ UNCHANGED <<data, pivotItemThreshold, turn, invocation>>

\* the caller passes another record list
ChangeData ==
  /\ hook.mounted
  /\ hook.changes < MaxChanges
  /\ \E d \in HookDataSets \ {data} :
       /\ data' = d
       /\ config' = config
       /\ hook' = Rerender(Changed(hook),
                           Closure(d, config, pivotItemThreshold))
  /\ UNCHANGED <<pivotItemThreshold, turn, invocation>>

\* the caller passes another threshold
ChangeThreshold ==
  /\ hook.mounted
  /\ hook.changes < MaxChanges
  /\ \E t \in Thresholds \ {pivotItemThreshold} :
       /\ pivotItemThreshold' = t
       /\ config' = config
       /\ hook' = Rerender(Changed(hook), Closure(data, config, t))
  /\ UNCHANGED <<data, turn, invocation>>

\* lines 54-60: the debounce timer fires; a new controller replaces the one
\* of computationRef, whose computation, if any is left, was aborted when
\* the timer was set and changes nothing any more
TimerFires ==
  /\ hook.timeoutRef # <<>>
  /\ LET cl == hook.timeoutRef[1]
         h == [hook EXCEPT !.timeoutRef = <<>>,
                           !.computationRef = <<Launched(cl)>>]
     IN IF RowKeysOf(cl).ok
        THEN hook' = h /\ UNCHANGED inputs
        ELSE Report(h, cl, RowKeysOf(cl).error)
  /\ turn' = 1 - turn
  /\ UNCHANGED invocation

\* lines 98 and 104-109: the initial computation goes on from the yield of
\* line 42 to the column keys
InitialResume ==
  /\ hook.initial # <<>>
  /\ hook.initial[1].at = "yieldAfterRows"
  /\ LET ck == ColumnKeysOf(hook.initial[1])
     IN IF ck.ok
        THEN /\ hook' = [hook EXCEPT !.initial[1].at = "running",
                                     !.initial[1].columnKeys = ck.keys]
             /\ UNCHANGED inputs
        ELSE IF hook.initial[1].aborted
        THEN /\ hook' = [hook EXCEPT !.initial[1].at = "settled"]
             /\ UNCHANGED inputs
        ELSE Report([hook EXCEPT !.initial[1].at = "settled"],
                    ClosureOf(hook.initial[1]), ck.error)
  /\ turn' = 1 - turn
  /\ UNCHANGED invocation

\* lines 98-103: the initial computation ends
InitialFinish ==
  /\ hook.initial # <<>>
  /\ hook.initial[1].at = "running"
  /\ LET h == [hook EXCEPT !.initial[1].at = "settled"]
     IN hook' = IF hook.initial[1].aborted THEN h
                ELSE Commit(h, hook.initial[1])
  /\ turn' = 1 - turn
  /\ UNCHANGED <<inputs, invocation>>

\* lines 60 and 67-72: the debounced computation goes on from the yield of
\* line 42 to the column keys
DebouncedResume ==
  /\ hook.computationRef # <<>>
  /\ hook.computationRef[1].at = "yieldAfterRows"
  /\ LET ck == ColumnKeysOf(hook.computationRef[1])
     IN IF ck.ok
        THEN /\ hook' = [hook EXCEPT !.computationRef[1].at = "running",
                                     !.computationRef[1].columnKeys = ck.keys]
             /\ UNCHANGED inputs
        ELSE IF hook.computationRef[1].aborted
        THEN /\ hook' = [hook EXCEPT !.computationRef[1].at = "settled"]
             /\ UNCHANGED inputs
        ELSE Report([hook EXCEPT !.computationRef[1].at = "settled"],
                    ClosureOf(hook.computationRef[1]), ck.error)
  /\ turn' = 1 - turn
  /\ UNCHANGED invocation

\* lines 60-66: the debounced computation ends
DebouncedFinish ==
  /\ hook.computationRef # <<>>
  /\ hook.computationRef[1].at = "running"
  /\ LET h == [hook EXCEPT !.computationRef[1].at = "settled"]
     IN hook' = IF hook.computationRef[1].aborted THEN h
                ELSE Commit(h, hook.computationRef[1])
  /\ turn' = 1 - turn
  /\ UNCHANGED <<inputs, invocation>>

InitHook ==
  /\ data \in HookDataSets
  /\ config \in HookConfigs
  /\ pivotItemThreshold \in Thresholds
  /\ aborted = FALSE
  /\ abortedAt = "never"
  /\ pc = "created"
  /\ filteredData = <<>>
  /\ rowKeys = <<>>
  /\ columnKeys = <<>>
  /\ rowIndex = 0
  /\ colIndex = 0
  /\ cells = <<>>
  /\ rowTotals = <<>>
  /\ columnTotals = <<>>
  /\ result = <<>>
  /\ error = <<>>
  /\ peer = <<>>
  /\ yields = 0
  /\ hook = Unmounted
  /\ turn = 0

\* the steps of the hook itself: timers and continuations
HookStep ==
  \/ Mount
  \/ TimerFires
  \/ InitialResume
  \/ InitialFinish
  \/ DebouncedResume
  \/ DebouncedFinish

NextHook ==
  \/ HookStep
  \/ ChangeConfig
  \/ ChangeData
  \/ ChangeThreshold

\* a timer or a continuation of the hook is queued
Pending ==
  \/ ~hook.mounted
  \/ hook.timeoutRef # <<>>
  \/ \E c \in Range(hook.initial) \cup Range(hook.computationRef) :
       c.at # "settled"

\* the event loop takes a turn for the hook: every step of HookStep is one,
\* and one is possible exactly when something is queued
Turn ==
  /\ Pending
  /\ turn' = 1 - turn

\* the event loop runs every timer and continuation it has queued; the
\* caller may stop changing the arguments at any time
SpecHook == InitHook /\ [][NextHook]_vars /\ WF_turn(Turn)

\* a config without the field of the error on the axis of the error
Ejected(c, e) ==
  LET keep(f) == f # e.fieldName
  IN IF e.fieldType = "row" THEN [c EXCEPT !.rows = SelectSeq(@, keep)]
     ELSE [c EXCEPT !.columns = SelectSeq(@, keep)]

\* C27: a reported cardinality error takes the field it names off the axis
\* it names and changes nothing else of the config; the errors reported
\* since the caller's last change are at most the row and column fields the
\* config had then; and after an error, unless the caller changes an
\* argument again, a table computed for the current arguments is committed.
C27_EjectAndRetry ==
  /\ [][hook'.failures = hook.failures + 1 =>
          config' = Ejected(config, hook'.reported[1])]_vars
  /\ [](hook.failures <= hook.ejectable)
  /\ (hook.failures > 0) ~>
       (hook.failures = 0 \/ hook.committed = <<Current>>)

\* the computations of the hook that have not ended
Unsettled ==
  {c \in Range(hook.initial) \cup Range(hook.computationRef) :
     c.at # "settled"}

\* C28: no table computed for a config that has been replaced is committed:
\* every computation still running for a config other than the current one,
\* the initial computation included, has been aborted, and a table that is
\* committed was computed for the config of the current render.
C28_NoSupersededCommit ==
  /\ [](\A c \in Unsettled : c.config # config => c.aborted)
  /\ [][hook'.committed # hook.committed =>
          hook'.committed[1].config = config']_vars

\* C29: whenever isComputing is true it becomes false again once the caller
\* has stopped changing the arguments, whatever the changes were (a change
\* back to the last computed config before the timer fires included).
C29_ComputingEnds == hook.isComputing ~> ~hook.isComputing

\* C30: once the caller has stopped changing data, config and threshold,
\* and unless a cardinality error was reported or the current arguments
\* exceed the threshold, pivotTable is from some time on the table of the
\* current data under the current config (also after a change of the data
\* alone).
C30_TableCurrent ==
  <>[](\/ hook.reported # <<>>
       \/ AloneOutcome(data, config, pivotItemThreshold, "never").pc
            = "cardinalityExceeded"
       \/ <<hook.pivotTable>> =
            AloneOutcome(data, config, pivotItemThreshold, "never").result)

====
